---- MODULE Spec2Model ----
(***************************************************************************)
(* Model of the access-control core of the Atlas PPM backend               *)
(* (backend/app/utils/rbac.py): the permission catalog, the role to        *)
(* permission map, the coarse permission check and the resource            *)
(* access-level resolver.                                                  *)
(*                                                                         *)
(* The core is a set of pure functions.  They are modelled as operators,   *)
(* computed rule by rule as the Python code computes them, and exercised   *)
(* by a caller that draws the arguments of a call from bounded sets and    *)
(* runs the call.                                                          *)
(***************************************************************************)
EXTENDS Integers, Sequences, FiniteSets, TLC

(***************************************************************************)
(* Values                                                                  *)
(***************************************************************************)

\* Python's None where a str is expected (role, ids).  It is a value
\* different from every role, resource type and id string of the model.
NONE == "None"

\* An optional list argument: Nothing is Python's None, Some(l) the list l.
Nothing == <<>>
Some(l) == <<l>>

\* Longest grant list drawn for portfolio_access / project_access.
MaxGrants == 2

\* Longest permission list drawn for the any / all checks.
MaxPermissions == 2

\* class UserRole(str, Enum)
UserRole ==
    {"admin", "pmo_admin", "portfolio_manager", "project_manager",
     "resource", "finance", "viewer"}

\* class Permission(str, Enum)
Permission ==
    {"manage_tenant", "view_tenant",
     "manage_users", "view_users", "invite_users",
     "create_portfolio", "edit_portfolio", "delete_portfolio",
     "view_portfolio", "manage_portfolio_members",
     "create_project", "edit_project", "delete_project", "view_project",
     "manage_project_members", "approve_project_changes",
     "manage_resources", "view_resources", "assign_resources",
     "view_resource_utilization",
     "manage_budgets", "view_budgets", "approve_budgets",
     "view_financial_reports",
     "enter_time", "approve_time", "view_time_reports",
     "manage_risks", "view_risks",
     "view_reports", "create_reports", "export_data",
     "view_audit_logs", "manage_integrations"}

\* class AccessLevel(str, Enum)
FULL == "full"
READ_WRITE == "read_write"
READ_ONLY == "read_only"
NO_ACCESS == "no_access"
AccessLevel == {FULL, READ_WRITE, READ_ONLY, NO_ACCESS}

(***************************************************************************)
(* Role-based permission mapping                                           *)
(***************************************************************************)

ROLE_PERMISSIONS ==
    ("admin" :>
        {"manage_tenant", "view_tenant", "manage_users", "view_users",
         "invite_users", "create_portfolio", "edit_portfolio",
         "delete_portfolio", "view_portfolio", "manage_portfolio_members",
         "create_project", "edit_project", "delete_project", "view_project",
         "manage_project_members", "approve_project_changes",
         "manage_resources", "view_resources", "assign_resources",
         "view_resource_utilization", "manage_budgets", "view_budgets",
         "approve_budgets", "view_financial_reports", "approve_time",
         "view_time_reports", "manage_risks", "view_risks", "view_reports",
         "create_reports", "export_data", "view_audit_logs",
         "manage_integrations"})
    @@ ("pmo_admin" :>
        {"view_tenant", "manage_users", "view_users", "invite_users",
         "create_portfolio", "edit_portfolio", "view_portfolio",
         "manage_portfolio_members", "create_project", "edit_project",
         "view_project", "manage_project_members", "approve_project_changes",
         "manage_resources", "view_resources", "assign_resources",
         "view_resource_utilization", "view_budgets", "approve_budgets",
         "view_financial_reports", "approve_time", "view_time_reports",
         "manage_risks", "view_risks", "view_reports", "create_reports",
         "export_data"})
    @@ ("portfolio_manager" :>
        {"view_users", "create_portfolio", "edit_portfolio", "view_portfolio",
         "manage_portfolio_members", "create_project", "edit_project",
         "view_project", "manage_project_members", "view_resources",
         "assign_resources", "view_resource_utilization", "manage_budgets",
         "view_budgets", "view_financial_reports", "approve_time",
         "view_time_reports", "manage_risks", "view_risks", "view_reports",
         "create_reports", "export_data"})
    @@ ("project_manager" :>
        {"view_users", "view_portfolio", "edit_project", "view_project",
         "manage_project_members", "view_resources", "assign_resources",
         "view_resource_utilization", "view_budgets",
         "view_financial_reports", "approve_time", "view_time_reports",
         "manage_risks", "view_risks", "view_reports", "create_reports"})
    @@ ("resource" :>
        {"view_project", "enter_time", "view_risks", "view_reports"})
    @@ ("finance" :>
        {"view_users", "view_portfolio", "view_project", "manage_budgets",
         "view_budgets", "approve_budgets", "view_financial_reports",
         "view_time_reports", "view_risks", "view_reports", "create_reports",
         "export_data"})
    @@ ("viewer" :>
        {"view_portfolio", "view_project", "view_resources", "view_budgets",
         "view_risks", "view_reports"})

\* Mutant: a missing key is looked up as the viewer's entry.
dict_get_viewer_default(map, key, default) ==
    IF key \in DOMAIN map THEN map[key] ELSE map["viewer"]

\* Python's `map.get(key, default)`; the dict is left as it is.
dict_get(map, key, default) ==
    IF key \in DOMAIN map THEN map[key] ELSE default

\* Mutant: the lookup stores the default under a missing key, as
\* dict.setdefault or a defaultdict would.
dict_after_setdefault(map, key, default) ==
    IF key \in DOMAIN map THEN map ELSE (key :> default) @@ map

\* The dict after `map.get(key, default)`: get never inserts.
dict_after_get(map, key, default) == map

\* ROLE_PERMISSIONS.get(role, set())
get_user_permissions(role) == dict_get(ROLE_PERMISSIONS, role, {})

\* Mutant: the role is ignored and the administrator's set is consulted.
user_has_permission_any_role(role, permission) ==
    permission \in get_user_permissions("admin")

\* permission in get_user_permissions(role)
user_has_permission(role, permission) ==
    permission \in get_user_permissions(role)

\* Python's any(perm in user_permissions for perm in permissions): the
\* list is scanned from the left and the scan stops at the first member.
RECURSIVE AnyIn(_, _)
AnyIn(permissions, user_permissions) ==
    IF permissions = <<>> THEN FALSE
    ELSE IF Head(permissions) \in user_permissions THEN TRUE
    ELSE AnyIn(Tail(permissions), user_permissions)

\* Python's all(perm in user_permissions for perm in permissions): the
\* scan stops at the first element that is not a member.
RECURSIVE AllIn(_, _)
AllIn(permissions, user_permissions) ==
    IF permissions = <<>> THEN TRUE
    ELSE IF Head(permissions) \notin user_permissions THEN FALSE
    ELSE AllIn(Tail(permissions), user_permissions)

\* Mutant: only the first permission of the list is looked at.
user_has_any_permission_first(role, permissions) ==
    permissions # <<>> /\ Head(permissions) \in get_user_permissions(role)

\* any(perm in get_user_permissions(role) for perm in permissions)
user_has_any_permission(role, permissions) ==
    AnyIn(permissions, get_user_permissions(role))

\* all(perm in get_user_permissions(role) for perm in permissions)
user_has_all_permissions(role, permissions) ==
    AllIn(permissions, get_user_permissions(role))

(***************************************************************************)
(* Resource access-level resolver                                          *)
(***************************************************************************)

\* `portfolio_access or []`: None and the empty list both give [].
OrEmpty(access) == IF access = Nothing THEN <<>> ELSE access[1]

\* Mutant: None is found in every list.
ListContains_none_member(x, list) ==
    x = NONE \/ \E i \in DOMAIN list : list[i] = x

\* Python's `x in list`: some element compares equal to x.
ListContains(x, list) == \E i \in DOMAIN list : list[i] = x

\* Mutant: an unset owner matches every user.
OwnerMatches_unset_matches(user_id, resource_owner_id) ==
    resource_owner_id = NONE \/ user_id = resource_owner_id

\* `user_id == resource_owner_id`
OwnerMatches(user_id, resource_owner_id) == user_id = resource_owner_id

\* The value of a rule whose `if` block ends without a return: control
\* falls through to the next `if user_role ...` statement.
FALLTHROUGH == "fallthrough"

\* Mutant: only the platform administrator is short-circuited.
admin_rule_admin_only(user_role) ==
    IF user_role = "admin" THEN FULL ELSE FALLTHROUGH

\* if user_role in [UserRole.ADMIN, UserRole.PMO_ADMIN]: return FULL
admin_rule(user_role) ==
    IF user_role \in {"admin", "pmo_admin"} THEN FULL ELSE FALLTHROUGH

\* Mutant: grant and ownership are both required.
portfolio_manager_rule_and(user_role, resource_type, user_id, resource_owner_id, portfolio_access, project_access, resource_id) ==
    IF user_role = "portfolio_manager"
    THEN IF resource_type = "portfolio"
         THEN IF ListContains(resource_id, portfolio_access)
                 /\ OwnerMatches(user_id, resource_owner_id)
              THEN FULL ELSE READ_ONLY
         ELSE IF resource_type = "project"
         THEN IF ListContains(resource_id, project_access)
                 /\ OwnerMatches(user_id, resource_owner_id)
              THEN READ_WRITE ELSE READ_ONLY
         ELSE FALLTHROUGH
    ELSE FALLTHROUGH

\* if user_role == UserRole.PORTFOLIO_MANAGER: ...
portfolio_manager_rule(user_role, resource_type, user_id, resource_owner_id, portfolio_access, project_access, resource_id) ==
    IF user_role = "portfolio_manager"
    THEN IF resource_type = "portfolio"
         THEN IF ListContains(resource_id, portfolio_access)
                 \/ OwnerMatches(user_id, resource_owner_id)
              THEN FULL ELSE READ_ONLY
         ELSE IF resource_type = "project"
         THEN IF ListContains(resource_id, project_access)
                 \/ OwnerMatches(user_id, resource_owner_id)
              THEN READ_WRITE ELSE READ_ONLY
         ELSE FALLTHROUGH
    ELSE FALLTHROUGH

\* Mutant: the portfolio branch honours grants and ownership too.
project_manager_rule_portfolio(user_role, resource_type, user_id, resource_owner_id, portfolio_access, project_access, resource_id) ==
    IF user_role = "project_manager"
    THEN IF resource_type = "project"
         THEN IF ListContains(resource_id, project_access)
                 \/ OwnerMatches(user_id, resource_owner_id)
              THEN FULL ELSE READ_ONLY
         ELSE IF resource_type = "portfolio"
         THEN IF ListContains(resource_id, portfolio_access)
                 \/ OwnerMatches(user_id, resource_owner_id)
              THEN FULL ELSE READ_ONLY
         ELSE FALLTHROUGH
    ELSE FALLTHROUGH

\* if user_role == UserRole.PROJECT_MANAGER: ...
project_manager_rule(user_role, resource_type, user_id, resource_owner_id, portfolio_access, project_access, resource_id) ==
    IF user_role = "project_manager"
    THEN IF resource_type = "project"
         THEN IF ListContains(resource_id, project_access)
                 \/ OwnerMatches(user_id, resource_owner_id)
              THEN FULL ELSE READ_ONLY
         ELSE IF resource_type = "portfolio"
         THEN READ_ONLY
         ELSE FALLTHROUGH
    ELSE FALLTHROUGH

\* Mutant: finance is limited to the two known resource types.
finance_rule_known_types(user_role, resource_type) ==
    IF user_role = "finance" /\ resource_type \in {"portfolio", "project"}
    THEN READ_WRITE ELSE FALLTHROUGH

\* if user_role == UserRole.FINANCE: return READ_WRITE
finance_rule(user_role, resource_type) ==
    IF user_role = "finance" THEN READ_WRITE ELSE FALLTHROUGH

\* Mutant: owning the project raises a resource-role user to read_write.
resource_rule_owner(user_role, resource_type, user_id, resource_owner_id, project_access, resource_id) ==
    IF user_role = "resource"
    THEN IF resource_type = "project"
            /\ (ListContains(resource_id, project_access)
                \/ OwnerMatches(user_id, resource_owner_id))
         THEN READ_WRITE ELSE READ_ONLY
    ELSE FALLTHROUGH

\* if user_role == UserRole.RESOURCE: ...
resource_rule(user_role, resource_type, user_id, resource_owner_id, project_access, resource_id) ==
    IF user_role = "resource"
    THEN IF resource_type = "project"
            /\ ListContains(resource_id, project_access)
         THEN READ_WRITE ELSE READ_ONLY
    ELSE FALLTHROUGH

\* Mutant: the grant lists are consulted whatever the resource type is.
viewer_rule_any_type(user_role, resource_type, user_id, resource_owner_id, portfolio_access, project_access, resource_id) ==
    IF user_role = "viewer"
       /\ (ListContains(resource_id, portfolio_access)
           \/ ListContains(resource_id, project_access))
    THEN READ_ONLY ELSE FALLTHROUGH

\* Mutant: the owner of a resource may read it.
viewer_rule_owner(user_role, resource_type, user_id, resource_owner_id, portfolio_access, project_access, resource_id) ==
    IF user_role = "viewer"
       /\ (\/ resource_type = "portfolio"
              /\ ListContains(resource_id, portfolio_access)
           \/ resource_type = "project"
              /\ ListContains(resource_id, project_access)
           \/ resource_type \in {"portfolio", "project"}
              /\ OwnerMatches(user_id, resource_owner_id))
    THEN READ_ONLY ELSE FALLTHROUGH

\* if user_role == UserRole.VIEWER: ...
viewer_rule(user_role, resource_type, user_id, resource_owner_id, portfolio_access, project_access, resource_id) ==
    IF user_role = "viewer"
       /\ (\/ resource_type = "portfolio"
              /\ ListContains(resource_id, portfolio_access)
           \/ resource_type = "project"
              /\ ListContains(resource_id, project_access))
    THEN READ_ONLY ELSE FALLTHROUGH

\* The first rule of the sequence that returns decides.
RECURSIVE FirstReturn(_)
FirstReturn(rules) ==
    IF rules = <<>> THEN NO_ACCESS
    ELSE IF Head(rules) # FALLTHROUGH THEN Head(rules)
    ELSE FirstReturn(Tail(rules))

\* def get_resource_access_level(user_role, resource_type, user_id,
\*         resource_owner_id=None, portfolio_access=None,
\*         project_access=None, resource_id=None) -> AccessLevel
get_resource_access_level(user_role, resource_type, user_id, resource_owner_id, portfolio_access_arg, project_access_arg, resource_id) ==
    LET portfolio_access == OrEmpty(portfolio_access_arg)
        project_access == OrEmpty(project_access_arg)
    IN  FirstReturn(<<
            admin_rule(user_role),
            portfolio_manager_rule(user_role, resource_type, user_id,
                resource_owner_id, portfolio_access, project_access,
                resource_id),
            project_manager_rule(user_role, resource_type, user_id,
                resource_owner_id, portfolio_access, project_access,
                resource_id),
            finance_rule(user_role, resource_type),
            resource_rule(user_role, resource_type, user_id,
                resource_owner_id, project_access, resource_id),
            viewer_rule(user_role, resource_type, user_id,
                resource_owner_id, portfolio_access, project_access,
                resource_id) >>)

(***************************************************************************)
(* The caller: one call of the core                                        *)
(***************************************************************************)

\* Role arguments: the closed set, a string outside it, and no role.
RoleArgs == UserRole \cup {"guest", NONE}

\* Permission arguments: the catalog and a name outside it.
PermissionArgs == Permission \cup {"launch_rockets"}

\* Resource types: the two the resolver knows and one it does not.
ResourceTypeArgs == {"portfolio", "project", "task"}

UserIds == {"u1", "u2"}
ResourceIds == {"p7", "pf1"}

RECURSIVE ListsUpTo(_, _)
ListsUpTo(S, n) ==
    IF n = 0 THEN {<<>>}
    ELSE LET shorter == ListsUpTo(S, n - 1)
         IN  shorter \cup {Append(l, x) : l \in shorter, x \in S}

\* Optional grant lists: absent, or a list of resource ids.
GrantArgs == {Nothing} \cup {Some(l) : l \in ListsUpTo(ResourceIds, MaxGrants)}

ResolverCalls ==
    [fn : {"get_resource_access_level"},
     user_role : RoleArgs,
     resource_type : ResourceTypeArgs,
     user_id : UserIds \cup {NONE},
     resource_owner_id : UserIds \cup {NONE},
     portfolio_access : GrantArgs,
     project_access : GrantArgs,
     resource_id : ResourceIds \cup {NONE}]

PermissionCalls ==
    [fn : {"user_has_permission"},
     role : RoleArgs,
     permission : PermissionArgs]

\* get_user_permissions(role)
PermissionSetCalls == [fn : {"get_user_permissions"}, role : RoleArgs]

\* Permissions the lists of the any / all checks are made of: names that
\* tell the roles apart, and the name outside the catalog.
ListedPermissions ==
    {"approve_budgets", "enter_time", "view_project", "view_users",
     "manage_tenant", "launch_rockets"}

\* user_has_any_permission(role, permissions) and
\* user_has_all_permissions(role, permissions)
PermissionListCalls ==
    [fn : {"user_has_any_permission", "user_has_all_permissions"},
     role : RoleArgs,
     permissions : ListsUpTo(ListedPermissions, MaxPermissions)]

CoreCalls ==
    ResolverCalls \cup PermissionCalls \cup PermissionSetCalls
        \cup PermissionListCalls

VARIABLES
    call,       \* the function called and its arguments
    returned,   \* TRUE once the call has returned
    level,      \* AccessLevel returned by the resolver, NONE otherwise
    granted,    \* bool returned by a permission check, FALSE otherwise
    perms       \* set returned by get_user_permissions, {} otherwise

coreVars == <<call, returned, level, granted, perms>>

VARIABLES
    role_map,   \* the module-level dict ROLE_PERMISSIONS of the process
    threads     \* the concurrent calls: arguments, position, locals, result

concVars == <<role_map, threads>>

VARIABLES
    db,         \* the document store: users, projects, portfolios, tenants
    tokens,     \* the verified tokens issued so far
    response,   \* the latest request and the answer it got
    writes      \* number of requests that have modified the store

apiVars == <<db, tokens, response, writes>>

vars == <<coreVars, concVars, apiVars>>

\* A request that carries no bearer token.
NoToken == [sub |-> NONE, tenant_id |-> NONE, user_role |-> NONE, token_type |-> "none"]

\* A request body that sets no field.
EmptyBody == [f \in {} |-> NONE]

\* No request has been answered.
NoResponse == [op |-> "none", token |-> NoToken, target |-> NONE, body |-> EmptyBody, status |-> 0, level |-> NONE, records |-> {}, issued |-> {}, changed |-> TRUE]

\* The HTTP layer is not serving: empty store, no token, no request.
ApiAtRest ==
    /\ db = [users |-> <<>>, projects |-> <<>>, portfolios |-> <<>>, tenants |-> <<>>]
    /\ tokens = {}
    /\ response = NoResponse
    /\ writes = 0

\* No call of the sequential caller is in progress.
CoreAtRest ==
    /\ call = [fn |-> "none"]
    /\ returned = TRUE
    /\ level = NONE
    /\ granted = FALSE
    /\ perms = {}

\* The process has loaded the module and runs no concurrent call.
ConcAtRest ==
    /\ role_map = ROLE_PERMISSIONS
    /\ threads = <<>>

Init ==
    /\ call \in CoreCalls
    /\ returned = FALSE
    /\ level = NONE
    /\ granted = FALSE
    /\ perms = {}
    /\ ConcAtRest
    /\ ApiAtRest

\* The resolver runs on the arguments of the call and returns.
ResolveAccess ==
    /\ call.fn = "get_resource_access_level"
    /\ ~returned
    /\ level' = get_resource_access_level(call.user_role, call.resource_type,
                    call.user_id, call.resource_owner_id,
                    call.portfolio_access, call.project_access,
                    call.resource_id)
    /\ returned' = TRUE
    /\ UNCHANGED <<call, granted, perms, concVars, apiVars>>

\* The coarse permission check runs and returns.
HasPermission ==
    /\ call.fn = "user_has_permission"
    /\ ~returned
    /\ granted' = user_has_permission(call.role, call.permission)
    /\ returned' = TRUE
    /\ UNCHANGED <<call, level, perms, concVars, apiVars>>

\* The permission set of a role is looked up and returned.
GetPermissions ==
    /\ call.fn = "get_user_permissions"
    /\ ~returned
    /\ perms' = get_user_permissions(call.role)
    /\ returned' = TRUE
    /\ UNCHANGED <<call, level, granted, concVars, apiVars>>

\* The disjunctive check runs and returns.
HasAnyPermission ==
    /\ call.fn = "user_has_any_permission"
    /\ ~returned
    /\ granted' = user_has_any_permission(call.role, call.permissions)
    /\ returned' = TRUE
    /\ UNCHANGED <<call, level, perms, concVars, apiVars>>

\* The conjunctive check runs and returns.
HasAllPermissions ==
    /\ call.fn = "user_has_all_permissions"
    /\ ~returned
    /\ granted' = user_has_all_permissions(call.role, call.permissions)
    /\ returned' = TRUE
    /\ UNCHANGED <<call, level, perms, concVars, apiVars>>

Next ==
    \/ ResolveAccess
    \/ HasPermission
    \/ GetPermissions
    \/ HasAnyPermission
    \/ HasAllPermissions

Spec == Init /\ [][Next]_vars

\* A resolver call that has returned / a permission check that has returned.
Resolved == returned /\ call.fn = "get_resource_access_level"
Checked == returned /\ call.fn = "user_has_permission"

(***************************************************************************)
(* Concurrent calls of the core                                            *)
(*                                                                         *)
(* Request handlers call the core from concurrent requests.  Each thread   *)
(* runs one call.  A permission check first binds its local                *)
(* user_permissions to the object dict.get returns (the set stored in the  *)
(* shared dict, or a fresh empty set) and then tests membership on that    *)
(* object; the resolver reads its arguments only.                          *)
(***************************************************************************)

\* Number of concurrent calls.
NumThreads == 2

Threads == 1 .. NumThreads

\* The calls the threads make.
ConcCalls ==
    [fn : {"user_has_permission"},
     role : {"admin", "resource", "guest"},
     permission : {"approve_budgets", "view_project"}]
    \cup [fn : {"get_user_permissions"}, role : {"admin", "resource", "guest"}]
    \cup [fn : {"user_has_any_permission", "user_has_all_permissions"},
          role : {"admin", "resource", "guest"},
          permissions : {<<"approve_budgets", "enter_time">>}]
    \cup [fn : {"get_resource_access_level"},
          user_role : {"project_manager", "viewer"},
          resource_type : {"project"},
          user_id : {"u1"},
          resource_owner_id : {"u1", "u2"},
          portfolio_access : {Nothing},
          project_access : {Nothing, Some(<<"p7">>)},
          resource_id : {"p7"}]

\* The object `map.get(key, set())` returns: the set stored under the key
\* (shared with every other caller) or a fresh empty set.
dict_get_ref(map, key) ==
    IF key \in DOMAIN map THEN [shared |-> TRUE, key |-> key]
    ELSE [shared |-> FALSE, key |-> key]

\* The contents of that object at the time it is read.
Deref(map, ref) == IF ref.shared THEN map[ref.key] ELSE {}

ConcInit ==
    /\ CoreAtRest
    /\ ApiAtRest
    /\ role_map = ROLE_PERMISSIONS
    /\ threads \in [Threads -> {[call |-> c, pc |-> "start", user_permissions |-> NONE, result |-> NONE] : c \in ConcCalls}]

\* user_permissions = get_user_permissions(role)
ThreadLookup(t) ==
    /\ threads[t].pc = "start"
    /\ threads[t].call.fn \in {"user_has_permission", "user_has_any_permission", "user_has_all_permissions"}
    /\ role_map' = dict_after_get(role_map, threads[t].call.role, {})
    /\ threads' = [threads EXCEPT ![t].pc = "test", ![t].user_permissions = dict_get_ref(role_map, threads[t].call.role)]
    /\ UNCHANGED <<coreVars, apiVars>>

\* return permission in user_permissions (or any(...) / all(...) over it)
ThreadTest(t) ==
    /\ threads[t].pc = "test"
    /\ LET c == threads[t].call
           user_permissions == Deref(role_map, threads[t].user_permissions)
           result == CASE c.fn = "user_has_permission" -> c.permission \in user_permissions
                       [] c.fn = "user_has_any_permission" -> AnyIn(c.permissions, user_permissions)
                       [] c.fn = "user_has_all_permissions" -> AllIn(c.permissions, user_permissions)
       IN  threads' = [threads EXCEPT ![t].pc = "done", ![t].result = result]
    /\ UNCHANGED <<coreVars, apiVars, role_map>>

\* return ROLE_PERMISSIONS.get(role, set())
ThreadGetPermissions(t) ==
    /\ threads[t].pc = "start"
    /\ threads[t].call.fn = "get_user_permissions"
    /\ role_map' = dict_after_get(role_map, threads[t].call.role, {})
    /\ threads' = [threads EXCEPT ![t].pc = "done", ![t].result = dict_get(role_map, threads[t].call.role, {})]
    /\ UNCHANGED <<coreVars, apiVars>>

\* The resolver runs on the thread's arguments.
ThreadResolve(t) ==
    /\ threads[t].pc = "start"
    /\ threads[t].call.fn = "get_resource_access_level"
    /\ LET c == threads[t].call
       IN  threads' = [threads EXCEPT ![t].pc = "done",
                          ![t].result = get_resource_access_level(c.user_role, c.resource_type, c.user_id, c.resource_owner_id, c.portfolio_access, c.project_access, c.resource_id)]
    /\ UNCHANGED <<coreVars, apiVars, role_map>>

ConcNext ==
    \E t \in Threads :
        \/ ThreadLookup(t)
        \/ ThreadTest(t)
        \/ ThreadGetPermissions(t)
        \/ ThreadResolve(t)

SpecConc == ConcInit /\ [][ConcNext]_vars

(***************************************************************************)
(* The HTTP handlers (backend/app/api/v1) over the document store          *)
(*                                                                         *)
(* The store starts from the demo data set of create_demo_data.py, cut     *)
(* down to two tenants: tenant t1 with an administrator a1 and one more    *)
(* user u1 of some role, a project p1 and a portfolio f1; tenant t2 with   *)
(* an administrator a2, a project p2 and a portfolio f2.  Each request is  *)
(* served in one step.                                                     *)
(***************************************************************************)

\* Requests that may modify the store in one run.
MaxWrites == 1

\* Successful logins whose tokens are in circulation in one run.
MaxSessions == 2

\* A user document of the demo data.
SeedUser(tenant, role) == [tenant_id |-> tenant, role |-> role, status |-> "active", is_active |-> TRUE, portfolio_access |-> <<>>, project_access |-> <<>>, full_name |-> "seed", failed_login_attempts |-> 0, updated_by |-> NONE]

\* A project document of the demo data.
SeedProject(tenant, manager) == [tenant_id |-> tenant, project_manager_id |-> manager, is_active |-> TRUE, updated_by |-> manager]

\* A portfolio document of the demo data.
SeedPortfolio(tenant, manager, project_ids) == [tenant_id |-> tenant, portfolio_manager_id |-> manager, project_ids |-> project_ids, is_active |-> TRUE, updated_by |-> manager]

\* The stores the program starts from.
SeedDatabases ==
    {[users |-> ("a1" :> SeedUser("t1", "admin")) @@ ("u1" :> SeedUser("t1", r)) @@ ("a2" :> SeedUser("t2", "admin")),
      projects |-> ("p1" :> SeedProject("t1", "u1")) @@ ("p2" :> SeedProject("t2", "a2")),
      portfolios |-> ("f1" :> SeedPortfolio("t1", "a1", {"p1"})) @@ ("f2" :> SeedPortfolio("t2", "a2", {"p2"})),
      tenants |-> ("t1" :> [status |-> "active"]) @@ ("t2" :> [status |-> "active"])]
        : r \in UserRole}

\* create_access_token(subject, tenant_id, user_role)
create_access_token(subject, tenant_id, user_role) == [sub |-> subject, tenant_id |-> tenant_id, user_role |-> user_role, token_type |-> "access"]

\* create_refresh_token(subject, tenant_id): the payload has no user_role,
\* so payload.get("user_role") is None.
create_refresh_token(subject, tenant_id) == [sub |-> subject, tenant_id |-> tenant_id, user_role |-> NONE, token_type |-> "refresh"]

\* get_current_user_and_tenant: the claims of a verified token; the token
\* type is not looked at.
get_current_user_and_tenant(token) == [user_id |-> token.sub, tenant_id |-> token.tenant_id, user_role |-> token.user_role]

\* `if not user_id or not tenant_id: raise 401`
Authenticated(token) == token.sub # NONE /\ token.tenant_id # NONE

\* UserRole(value) raises ValueError unless value is one of the enum's.
UserRoleAccepts(value) == value \in UserRole

\* What a handler hands back: HTTP status, the resolved level if any, the
\* documents in the answer, and the store it leaves.
Answer(code, access_level, records, d) == [status |-> code, level |-> access_level, records |-> records, db |-> d]

\* A document of an answer, by collection, id and tenant.
Doc(d, coll, id) == [coll |-> coll, id |-> id, tenant_id |-> d[coll][id].tenant_id]

\* Mutant: the query does not filter by tenant.
FindOneActive_any_tenant(coll, id, tenant_id) ==
    id \in DOMAIN coll /\ coll[id].is_active

\* Mutant: the query does not filter on is_active.
FindOneActive_deactivated_too(coll, id, tenant_id) ==
    id \in DOMAIN coll /\ coll[id].tenant_id = tenant_id

\* find_one({"_id": id, "tenant_id": tenant_id, "is_active": True})
FindOneActive(coll, id, tenant_id) ==
    id \in DOMAIN coll /\ coll[id].tenant_id = tenant_id /\ coll[id].is_active

\* update_one({"_id": id}, {"$set": update_data}) with updated_by added.
SetFields(doc, update_data, updated_by) ==
    [f \in DOMAIN doc |-> IF f = "updated_by" THEN updated_by ELSE IF f \in DOMAIN update_data THEN update_data[f] ELSE doc[f]]

\* Mutant: read_only is enough to view and to edit.
MayEdit_read_only(access_level) == access_level \in {FULL, READ_WRITE, READ_ONLY}

\* `access_level not in [FULL, READ_WRITE]` is the 403 of the PUT handlers.
MayEdit(access_level) == access_level \in {FULL, READ_WRITE}

\* `access_level == NO_ACCESS` is the 403 of the GET handlers.
MayView(access_level) == access_level # NO_ACCESS

\* Mutant: the handler reads the caller's grant list from the user record
\* and hands it to the resolver.
get_project_stored_grants(d, current_user, project_id) ==
    IF ~FindOneActive(d.projects, project_id, current_user.tenant_id) THEN Answer(404, NONE, {}, d)
    ELSE IF ~UserRoleAccepts(current_user.user_role) THEN Answer(500, NONE, {}, d)
    ELSE LET project_access == IF current_user.user_id \in DOMAIN d.users THEN Some(d.users[current_user.user_id].project_access) ELSE Nothing
             access_level == get_resource_access_level(current_user.user_role, "project", current_user.user_id, d.projects[project_id].project_manager_id, Nothing, project_access, project_id)
         IN  IF ~MayView(access_level) THEN Answer(403, access_level, {}, d)
             ELSE Answer(200, access_level, {Doc(d, "projects", project_id)}, d)

\* GET /projects/{project_id}
get_project(d, current_user, project_id) ==
    IF ~FindOneActive(d.projects, project_id, current_user.tenant_id) THEN Answer(404, NONE, {}, d)
    ELSE IF ~UserRoleAccepts(current_user.user_role) THEN Answer(500, NONE, {}, d)
    ELSE LET access_level == get_resource_access_level(current_user.user_role, "project", current_user.user_id, d.projects[project_id].project_manager_id, Nothing, Nothing, project_id)
         IN  IF ~MayView(access_level) THEN Answer(403, access_level, {}, d)
             ELSE Answer(200, access_level, {Doc(d, "projects", project_id)}, d)

\* PUT /projects/{project_id}
update_project(d, current_user, project_id, project_data) ==
    IF ~FindOneActive(d.projects, project_id, current_user.tenant_id) THEN Answer(404, NONE, {}, d)
    ELSE IF ~UserRoleAccepts(current_user.user_role) THEN Answer(500, NONE, {}, d)
    ELSE LET access_level == get_resource_access_level(current_user.user_role, "project", current_user.user_id, d.projects[project_id].project_manager_id, Nothing, Nothing, project_id)
             updated == [d EXCEPT !.projects[project_id] = SetFields(@, project_data, current_user.user_id)]
         IN  IF ~MayEdit(access_level) THEN Answer(403, access_level, {}, d)
             ELSE IF DOMAIN project_data # {} THEN Answer(200, access_level, {Doc(updated, "projects", project_id)}, updated)
             ELSE Answer(200, access_level, {Doc(d, "projects", project_id)}, d)

\* GET /portfolios/{portfolio_id}
get_portfolio(d, current_user, portfolio_id) ==
    IF ~FindOneActive(d.portfolios, portfolio_id, current_user.tenant_id) THEN Answer(404, NONE, {}, d)
    ELSE IF ~UserRoleAccepts(current_user.user_role) THEN Answer(500, NONE, {}, d)
    ELSE LET access_level == get_resource_access_level(current_user.user_role, "portfolio", current_user.user_id, d.portfolios[portfolio_id].portfolio_manager_id, Nothing, Nothing, portfolio_id)
         IN  IF ~MayView(access_level) THEN Answer(403, access_level, {}, d)
             ELSE Answer(200, access_level, {Doc(d, "portfolios", portfolio_id)}, d)

\* PUT /portfolios/{portfolio_id}
update_portfolio(d, current_user, portfolio_id, portfolio_data) ==
    IF ~FindOneActive(d.portfolios, portfolio_id, current_user.tenant_id) THEN Answer(404, NONE, {}, d)
    ELSE IF ~UserRoleAccepts(current_user.user_role) THEN Answer(500, NONE, {}, d)
    ELSE LET access_level == get_resource_access_level(current_user.user_role, "portfolio", current_user.user_id, d.portfolios[portfolio_id].portfolio_manager_id, Nothing, Nothing, portfolio_id)
             updated == [d EXCEPT !.portfolios[portfolio_id] = SetFields(@, portfolio_data, current_user.user_id)]
         IN  IF ~MayEdit(access_level) THEN Answer(403, access_level, {}, d)
             ELSE IF DOMAIN portfolio_data # {} THEN Answer(200, access_level, {Doc(updated, "portfolios", portfolio_id)}, updated)
             ELSE Answer(200, access_level, {Doc(d, "portfolios", portfolio_id)}, d)

\* The documents of a collection a list query of the tenant returns.
FindActive(d, coll, tenant_id) == {Doc(d, coll, id) : id \in {i \in DOMAIN d[coll] : d[coll][i].tenant_id = tenant_id /\ d[coll][i].is_active}}

\* GET /projects
list_projects(d, current_user) ==
    IF ~UserRoleAccepts(current_user.user_role) THEN Answer(500, NONE, {}, d)
    ELSE IF ~user_has_permission(current_user.user_role, "view_project") THEN Answer(403, NONE, {}, d)
    ELSE Answer(200, NONE, FindActive(d, "projects", current_user.tenant_id), d)

\* GET /portfolios
list_portfolios(d, current_user) ==
    IF ~UserRoleAccepts(current_user.user_role) THEN Answer(500, NONE, {}, d)
    ELSE IF ~user_has_permission(current_user.user_role, "view_portfolio") THEN Answer(403, NONE, {}, d)
    ELSE Answer(200, NONE, FindActive(d, "portfolios", current_user.tenant_id), d)

\* The answer model (UserResponse) requires a role of the enum: building it
\* from a document whose role is null raises, and the global exception
\* handler of server.py answers 500.
UserResponseValid(user) == user.role \in UserRole

\* The username (and the id) a new user of the tenant is created under.
NewUserIds == [t1 |-> "u3", t2 |-> "u4"]

\* The code (and the id) a new project of the tenant is created under.
NewProjectIds == [t1 |-> "p3", t2 |-> "p4"]

\* POST /users
create_user(d, current_user, user_data) ==
    LET user_id == NewUserIds[current_user.tenant_id]
        user_doc == [tenant_id |-> current_user.tenant_id, role |-> user_data.role, status |-> "pending_verification", is_active |-> TRUE, portfolio_access |-> <<>>, project_access |-> <<>>, full_name |-> "new", failed_login_attempts |-> 0, updated_by |-> NONE]
        inserted == [d EXCEPT !.users = (user_id :> user_doc) @@ @]
    IN  IF ~UserRoleAccepts(current_user.user_role) THEN Answer(500, NONE, {}, d)
        ELSE IF ~user_has_permission(current_user.user_role, "manage_users") THEN Answer(403, NONE, {}, d)
        ELSE IF user_id \in DOMAIN d.users THEN Answer(400, NONE, {}, d)
        ELSE Answer(200, NONE, {Doc(inserted, "users", user_id)}, inserted)

\* GET /users
list_users(d, current_user) ==
    IF ~UserRoleAccepts(current_user.user_role) THEN Answer(500, NONE, {}, d)
    ELSE IF ~user_has_permission(current_user.user_role, "view_users") THEN Answer(403, NONE, {}, d)
    ELSE IF \E id \in DOMAIN d.users : d.users[id].tenant_id = current_user.tenant_id /\ d.users[id].is_active /\ ~UserResponseValid(d.users[id]) THEN Answer(500, NONE, {}, d)
    ELSE Answer(200, NONE, FindActive(d, "users", current_user.tenant_id), d)

\* GET /users/{user_id}
get_user(d, current_user, user_id) ==
    IF ~UserRoleAccepts(current_user.user_role) THEN Answer(500, NONE, {}, d)
    ELSE IF ~user_has_permission(current_user.user_role, "view_users") /\ user_id # current_user.user_id THEN Answer(403, NONE, {}, d)
    ELSE IF ~FindOneActive(d.users, user_id, current_user.tenant_id) THEN Answer(404, NONE, {}, d)
    ELSE IF ~UserResponseValid(d.users[user_id]) THEN Answer(500, NONE, {}, d)
    ELSE Answer(200, NONE, {Doc(d, "users", user_id)}, d)

\* `{k for k, v in user_data.dict(exclude_unset=True).items() if v is not None}`
SetNonNullFields(user_data) == {k \in DOMAIN user_data : user_data[k] # NONE}

\* PUT /users/{user_id}
update_user(d, current_user, user_id, user_data) ==
    LET updated == [d EXCEPT !.users[user_id] = SetFields(@, user_data, current_user.user_id)]
    IN  IF ~UserRoleAccepts(current_user.user_role) THEN Answer(500, NONE, {}, d)
        ELSE IF ~user_has_permission(current_user.user_role, "manage_users") /\ user_id # current_user.user_id THEN Answer(403, NONE, {}, d)
        ELSE IF ~user_has_permission(current_user.user_role, "manage_users") /\ ~(SetNonNullFields(user_data) \subseteq {"full_name", "phone", "avatar_url"}) THEN Answer(403, NONE, {}, d)
        ELSE IF ~FindOneActive(d.users, user_id, current_user.tenant_id) THEN Answer(404, NONE, {}, d)
        ELSE IF DOMAIN user_data = {} THEN (IF UserResponseValid(d.users[user_id]) THEN Answer(200, NONE, {Doc(d, "users", user_id)}, d) ELSE Answer(500, NONE, {}, d))
        ELSE IF ~UserResponseValid(updated.users[user_id]) THEN Answer(500, NONE, {}, updated)
        ELSE Answer(200, NONE, {Doc(updated, "users", user_id)}, updated)

\* Mutant: the record is deactivated before the permission check.
delete_user_write_first(d, current_user, user_id) ==
    LET deactivated == IF user_id \in DOMAIN d.users /\ d.users[user_id].tenant_id = current_user.tenant_id THEN [d EXCEPT !.users[user_id] = [@ EXCEPT !.is_active = FALSE, !.status = "inactive", !.updated_by = current_user.user_id]] ELSE d
    IN  IF ~UserRoleAccepts(current_user.user_role) THEN Answer(500, NONE, {}, d)
        ELSE IF ~user_has_permission(current_user.user_role, "manage_users") THEN Answer(403, NONE, {}, deactivated)
        ELSE IF user_id = current_user.user_id THEN Answer(400, NONE, {}, d)
        ELSE IF deactivated = d THEN Answer(404, NONE, {}, d)
        ELSE Answer(200, NONE, {}, deactivated)

\* DELETE /users/{user_id}: update_one({"_id", "tenant_id"}, ...)
delete_user(d, current_user, user_id) ==
    IF ~UserRoleAccepts(current_user.user_role) THEN Answer(500, NONE, {}, d)
    ELSE IF ~user_has_permission(current_user.user_role, "manage_users") THEN Answer(403, NONE, {}, d)
    ELSE IF user_id = current_user.user_id THEN Answer(400, NONE, {}, d)
    ELSE IF ~(user_id \in DOMAIN d.users /\ d.users[user_id].tenant_id = current_user.tenant_id) THEN Answer(404, NONE, {}, d)
    ELSE Answer(200, NONE, {}, [d EXCEPT !.users[user_id] = [@ EXCEPT !.is_active = FALSE, !.status = "inactive", !.updated_by = current_user.user_id]])

\* POST /projects
create_project(d, current_user, project_data) ==
    LET project_id == NewProjectIds[current_user.tenant_id]
        project_doc == [tenant_id |-> current_user.tenant_id, project_manager_id |-> project_data.project_manager_id, is_active |-> TRUE, updated_by |-> NONE]
        inserted == [d EXCEPT !.projects = (project_id :> project_doc) @@ @]
        pushed == IF project_data.portfolio_id # NONE THEN [inserted EXCEPT !.portfolios[project_data.portfolio_id].project_ids = @ \cup {project_id}] ELSE inserted
    IN  IF ~UserRoleAccepts(current_user.user_role) THEN Answer(500, NONE, {}, d)
        ELSE IF ~user_has_permission(current_user.user_role, "create_project") THEN Answer(403, NONE, {}, d)
        ELSE IF project_id \in DOMAIN d.projects THEN Answer(400, NONE, {}, d)
        ELSE IF project_data.portfolio_id # NONE /\ ~(project_data.portfolio_id \in DOMAIN d.portfolios /\ d.portfolios[project_data.portfolio_id].tenant_id = current_user.tenant_id) THEN Answer(400, NONE, {}, d)
        ELSE Answer(200, NONE, {Doc(pushed, "projects", project_id)}, pushed)

\* The code (and the id) a new portfolio of the tenant is created under.
NewPortfolioIds == [t1 |-> "f3", t2 |-> "f4"]

\* POST /portfolios
create_portfolio(d, current_user, portfolio_data) ==
    LET portfolio_id == NewPortfolioIds[current_user.tenant_id]
        portfolio_doc == [tenant_id |-> current_user.tenant_id, portfolio_manager_id |-> portfolio_data.portfolio_manager_id, project_ids |-> {}, is_active |-> TRUE, updated_by |-> NONE]
        inserted == [d EXCEPT !.portfolios = (portfolio_id :> portfolio_doc) @@ @]
    IN  IF ~UserRoleAccepts(current_user.user_role) THEN Answer(500, NONE, {}, d)
        ELSE IF ~user_has_permission(current_user.user_role, "create_portfolio") THEN Answer(403, NONE, {}, d)
        ELSE IF portfolio_id \in DOMAIN d.portfolios THEN Answer(400, NONE, {}, d)
        ELSE Answer(200, NONE, {Doc(inserted, "portfolios", portfolio_id)}, inserted)

\* A tenant document of an answer: its tenant identifier is its id.
TenantDoc(id) == [coll |-> "tenants", id |-> id, tenant_id |-> id]

\* GET /admin/tenant
get_tenant_info(d, current_user) ==
    IF ~UserRoleAccepts(current_user.user_role) THEN Answer(500, NONE, {}, d)
    ELSE IF ~user_has_permission(current_user.user_role, "view_tenant") THEN Answer(403, NONE, {}, d)
    ELSE IF current_user.tenant_id \notin DOMAIN d.tenants THEN Answer(404, NONE, {}, d)
    ELSE Answer(200, NONE, {TenantDoc(current_user.tenant_id)}, d)

\* PUT /admin/tenant
update_tenant(d, current_user, tenant_data) ==
    LET updated == IF DOMAIN tenant_data # {} THEN [d EXCEPT !.tenants[current_user.tenant_id] = [f \in DOMAIN @ |-> IF f \in DOMAIN tenant_data THEN tenant_data[f] ELSE @[f]]] ELSE d
    IN  IF ~UserRoleAccepts(current_user.user_role) THEN Answer(500, NONE, {}, d)
        ELSE IF ~user_has_permission(current_user.user_role, "manage_tenant") THEN Answer(403, NONE, {}, d)
        ELSE IF current_user.tenant_id \notin DOMAIN d.tenants THEN Answer(404, NONE, {}, d)
        ELSE Answer(200, NONE, {TenantDoc(current_user.tenant_id)}, updated)

\* GET /admin/dashboard: the token's role is compared as it is (no
\* UserRole(...) conversion); the statistics are counts, no document.
get_admin_dashboard(d, current_user) ==
    IF current_user.user_role \notin {"admin", "pmo_admin"} THEN Answer(403, NONE, {}, d)
    ELSE Answer(200, NONE, {}, d)

\* Mutant: the check of the dashboard guards the health endpoint too.
get_system_health_pmo_admin(d, current_user) ==
    IF current_user.user_role \notin {"admin", "pmo_admin"} THEN Answer(403, NONE, {}, d)
    ELSE Answer(200, NONE, {}, d)

\* GET /admin/system-health: a failing ping is caught and reported as
\* "degraded" in a 200 answer.
get_system_health(d, current_user) ==
    IF current_user.user_role # "admin" THEN Answer(403, NONE, {}, d)
    ELSE Answer(200, NONE, {}, d)

\* get_tenant_from_code: 404 for an unknown code, 403 unless active, else
\* the tenant (0 stands for "found").
get_tenant_from_code(d, tenant_code) ==
    IF tenant_code \notin DOMAIN d.tenants THEN 404
    ELSE IF d.tenants[tenant_code].status # "active" THEN 403
    ELSE 0

\* Mutant: a successful login leaves the counter as it is.
login_no_reset(d, tenant_code, username, password_ok) ==
    LET found == FindOneActive(d.users, username, tenant_code)
        failed == [d EXCEPT !.users[username].failed_login_attempts = @ + 1]
        issued == {create_access_token(username, tenant_code, d.users[username].role), create_refresh_token(username, tenant_code)}
    IN  IF get_tenant_from_code(d, tenant_code) # 0 THEN [status |-> get_tenant_from_code(d, tenant_code), issued |-> {}, db |-> d]
        ELSE IF ~found THEN [status |-> 401, issued |-> {}, db |-> d]
        ELSE IF ~password_ok THEN [status |-> 401, issued |-> {}, db |-> failed]
        ELSE IF d.users[username].status # "active" THEN [status |-> 403, issued |-> {}, db |-> d]
        ELSE IF ~UserResponseValid(d.users[username]) THEN [status |-> 500, issued |-> {}, db |-> d]
        ELSE [status |-> 200, issued |-> issued, db |-> d]

\* POST /auth/login: the answer and the tokens it carries.
login(d, tenant_code, username, password_ok) ==
    LET found == FindOneActive(d.users, username, tenant_code)
        failed == [d EXCEPT !.users[username].failed_login_attempts = @ + 1]
        reset == [d EXCEPT !.users[username].failed_login_attempts = 0]
        issued == {create_access_token(username, tenant_code, d.users[username].role), create_refresh_token(username, tenant_code)}
    IN  IF get_tenant_from_code(d, tenant_code) # 0 THEN [status |-> get_tenant_from_code(d, tenant_code), issued |-> {}, db |-> d]
        ELSE IF ~found THEN [status |-> 401, issued |-> {}, db |-> d]
        ELSE IF ~password_ok THEN [status |-> 401, issued |-> {}, db |-> failed]
        ELSE IF d.users[username].status # "active" THEN [status |-> 403, issued |-> {}, db |-> d]
        ELSE IF ~UserResponseValid(d.users[username]) THEN [status |-> 500, issued |-> {}, db |-> reset]
        ELSE [status |-> 200, issued |-> issued, db |-> reset]

\* The id (and username, admin_<code>) of the administrator created with a
\* tenant.
NewAdminIds == [t3 |-> "a3"]

\* POST /auth/register-tenant: the tenant is stored with status trial, its
\* administrator with role admin and status active.
register_tenant_and_admin(d, tenant_data) ==
    LET tenant_id == tenant_data.code
        admin_user_id == NewAdminIds[tenant_data.code]
        admin_user_doc == [tenant_id |-> tenant_id, role |-> "admin", status |-> "active", is_active |-> TRUE, portfolio_access |-> <<>>, project_access |-> <<>>, full_name |-> "new", failed_login_attempts |-> 0, updated_by |-> NONE]
        inserted == [d EXCEPT !.tenants = (tenant_id :> [status |-> "trial"]) @@ @, !.users = (admin_user_id :> admin_user_doc) @@ @]
    IN  IF tenant_data.code \in DOMAIN d.tenants THEN [status |-> 400, issued |-> {}, db |-> d]
        ELSE [status |-> 200, issued |-> {}, db |-> inserted]

\* decode_token: the signature verifies for the tokens the server issued.
decode_token(issued, token) == token \in issued

\* Mutant: the token type is not looked at.
refresh_token_any_type(d, issued, token) ==
    IF ~decode_token(issued, token) THEN [status |-> 401, issued |-> {}, db |-> d]
    ELSE IF ~(token.sub \in DOMAIN d.users /\ d.users[token.sub].tenant_id = token.tenant_id /\ d.users[token.sub].is_active /\ d.users[token.sub].status = "active") THEN [status |-> 401, issued |-> {}, db |-> d]
    ELSE [status |-> 200, issued |-> {create_access_token(token.sub, token.tenant_id, d.users[token.sub].role)}, db |-> d]

\* POST /auth/refresh: every exception, the 401s of the handler included,
\* ends in the 401 of the except clause.
refresh_token(d, issued, token) ==
    IF ~decode_token(issued, token) THEN [status |-> 401, issued |-> {}, db |-> d]
    ELSE IF token.token_type # "refresh" THEN [status |-> 401, issued |-> {}, db |-> d]
    ELSE IF ~(token.sub \in DOMAIN d.users /\ d.users[token.sub].tenant_id = token.tenant_id /\ d.users[token.sub].is_active /\ d.users[token.sub].status = "active") THEN [status |-> 401, issued |-> {}, db |-> d]
    ELSE [status |-> 200, issued |-> {create_access_token(token.sub, token.tenant_id, d.users[token.sub].role)}, db |-> d]

(***************************************************************************)
(* Requests                                                                *)
(***************************************************************************)

ProjectIdArgs == {"p1", "p2", "p9"}

PortfolioIdArgs == {"f1", "f2", "f9"}

UserIdArgs == {"u1", "a2"}

UsernameArgs == {"a1", "u1", "a2", "a3"}

TenantCodeArgs == {"t1", "t2", "t3"}

\* The logins tried: each user under the code of their tenant, and u1 under
\* the code of another tenant.
UserLoginArgs == {<<"t1", "a1">>, <<"t1", "u1">>, <<"t2", "a2">>, <<"t3", "a3">>, <<"t2", "u1">>}

\* A refresh token nobody was issued, unless a1 has logged in.
ForgedToken == create_refresh_token("a1", "t1")

ProjectUpdateArgs == {EmptyBody, [project_manager_id |-> "a1"]}

PortfolioUpdateArgs == {EmptyBody, [portfolio_manager_id |-> "u1"]}

UserUpdateArgs == {EmptyBody, [full_name |-> "renamed"], [role |-> "admin"], [role |-> NONE], [project_access |-> <<"p1">>, portfolio_access |-> <<"f1">>]}

UserCreateArgs == {[role |-> "viewer"]}

ProjectCreateArgs == {[portfolio_id |-> f, project_manager_id |-> "u1"] : f \in {NONE, "f2"}}

PortfolioCreateArgs == {[portfolio_manager_id |-> "u1"]}

TenantCreateArgs == {[code |-> "t3"]}

TenantUpdateArgs == {EmptyBody, [status |-> "suspended"]}

\* The store and the tokens of a freshly seeded deployment.
ApiInit ==
    /\ CoreAtRest
    /\ ConcAtRest
    /\ db \in SeedDatabases
    /\ tokens = {}
    /\ response = NoResponse
    /\ writes = 0

\* The server takes up the next request.  An answer that changed neither
\* the store nor the tokens in circulation left the server where it was
\* before the request, so the requests that can follow it are the ones that
\* could follow from there; they are served from there only.
Ready == response.changed

\* One request is served: the store becomes the one the handler leaves and
\* the answer is recorded.  A request that changes the store uses up one of
\* the MaxWrites.
Serve(op, token, target, body, answer) ==
    /\ Ready
    /\ answer.db = db \/ writes < MaxWrites
    /\ db' = answer.db
    /\ writes' = IF answer.db = db THEN writes ELSE writes + 1
    /\ response' = [op |-> op, token |-> token, target |-> target, body |-> body, status |-> answer.status, level |-> answer.level, records |-> answer.records, issued |-> {}, changed |-> answer.db # db]
    /\ UNCHANGED <<coreVars, concVars, tokens>>

\* The dependency every handler declares: 401 unless the token names a user
\* and a tenant, else the handler runs with the token's claims.
WithCurrentUser(token, answer) == IF Authenticated(token) THEN answer ELSE Answer(401, NONE, {}, db)

\* The answer of a request of the authentication router takes effect: as in
\* Serve, and the tokens of the answer come into circulation.
ServeAuth(op, token, target, body, answer) ==
    /\ answer.issued \subseteq tokens \/ Cardinality(tokens) < 2 * MaxSessions
    /\ answer.db = db \/ writes < MaxWrites
    /\ db' = answer.db
    /\ writes' = IF answer.db = db THEN writes ELSE writes + 1
    /\ tokens' = tokens \cup answer.issued
    /\ response' = [op |-> op, token |-> token, target |-> target, body |-> body, status |-> answer.status, level |-> NONE, records |-> {}, issued |-> answer.issued, changed |-> answer.db # db \/ ~(answer.issued \subseteq tokens)]
    /\ UNCHANGED <<coreVars, concVars>>

Login ==
    /\ Ready
    /\ \E credentials \in UserLoginArgs, password_ok \in BOOLEAN :
          ServeAuth("login", NoToken, credentials[2], [tenant_code |-> credentials[1], password_ok |-> password_ok], login(db, credentials[1], credentials[2], password_ok))

RegisterTenant ==
    /\ Ready
    /\ \E tenant_data \in TenantCreateArgs :
          ServeAuth("register_tenant", NoToken, NONE, tenant_data, register_tenant_and_admin(db, tenant_data))

RefreshToken ==
    /\ Ready
    /\ \E token \in tokens \cup {ForgedToken} :
          ServeAuth("refresh_token", token, NONE, EmptyBody, refresh_token(db, tokens, token))

GetProject ==
    \E token \in tokens, project_id \in ProjectIdArgs :
        Serve("get_project", token, project_id, EmptyBody, WithCurrentUser(token, get_project(db, get_current_user_and_tenant(token), project_id)))

UpdateProject ==
    \E token \in tokens, project_id \in ProjectIdArgs, project_data \in ProjectUpdateArgs :
        Serve("update_project", token, project_id, project_data, WithCurrentUser(token, update_project(db, get_current_user_and_tenant(token), project_id, project_data)))

ListProjects ==
    \E token \in tokens :
        Serve("list_projects", token, NONE, EmptyBody, WithCurrentUser(token, list_projects(db, get_current_user_and_tenant(token))))

CreateProject ==
    \E token \in tokens, project_data \in ProjectCreateArgs :
        Serve("create_project", token, NONE, project_data, WithCurrentUser(token, create_project(db, get_current_user_and_tenant(token), project_data)))

CreatePortfolio ==
    \E token \in tokens, portfolio_data \in PortfolioCreateArgs :
        Serve("create_portfolio", token, NONE, portfolio_data, WithCurrentUser(token, create_portfolio(db, get_current_user_and_tenant(token), portfolio_data)))

GetPortfolio ==
    \E token \in tokens, portfolio_id \in PortfolioIdArgs :
        Serve("get_portfolio", token, portfolio_id, EmptyBody, WithCurrentUser(token, get_portfolio(db, get_current_user_and_tenant(token), portfolio_id)))

UpdatePortfolio ==
    \E token \in tokens, portfolio_id \in PortfolioIdArgs, portfolio_data \in PortfolioUpdateArgs :
        Serve("update_portfolio", token, portfolio_id, portfolio_data, WithCurrentUser(token, update_portfolio(db, get_current_user_and_tenant(token), portfolio_id, portfolio_data)))

ListPortfolios ==
    \E token \in tokens :
        Serve("list_portfolios", token, NONE, EmptyBody, WithCurrentUser(token, list_portfolios(db, get_current_user_and_tenant(token))))

CreateUser ==
    \E token \in tokens, user_data \in UserCreateArgs :
        Serve("create_user", token, NONE, user_data, WithCurrentUser(token, create_user(db, get_current_user_and_tenant(token), user_data)))

ListUsers ==
    \E token \in tokens :
        Serve("list_users", token, NONE, EmptyBody, WithCurrentUser(token, list_users(db, get_current_user_and_tenant(token))))

GetUser ==
    \E token \in tokens, user_id \in UserIdArgs :
        Serve("get_user", token, user_id, EmptyBody, WithCurrentUser(token, get_user(db, get_current_user_and_tenant(token), user_id)))

UpdateUser ==
    \E token \in tokens, user_id \in UserIdArgs, user_data \in UserUpdateArgs :
        Serve("update_user", token, user_id, user_data, WithCurrentUser(token, update_user(db, get_current_user_and_tenant(token), user_id, user_data)))

DeleteUser ==
    \E token \in tokens, user_id \in UserIdArgs :
        Serve("delete_user", token, user_id, EmptyBody, WithCurrentUser(token, delete_user(db, get_current_user_and_tenant(token), user_id)))

GetTenantInfo ==
    \E token \in tokens :
        Serve("get_tenant_info", token, NONE, EmptyBody, WithCurrentUser(token, get_tenant_info(db, get_current_user_and_tenant(token))))

UpdateTenant ==
    \E token \in tokens, tenant_data \in TenantUpdateArgs :
        Serve("update_tenant", token, NONE, tenant_data, WithCurrentUser(token, update_tenant(db, get_current_user_and_tenant(token), tenant_data)))

GetAdminDashboard ==
    \E token \in tokens :
        Serve("get_admin_dashboard", token, NONE, EmptyBody, WithCurrentUser(token, get_admin_dashboard(db, get_current_user_and_tenant(token))))

GetSystemHealth ==
    \E token \in tokens :
        Serve("get_system_health", token, NONE, EmptyBody, WithCurrentUser(token, get_system_health(db, get_current_user_and_tenant(token))))

ApiNext ==
    \/ RegisterTenant
    \/ Login
    \/ RefreshToken
    \/ GetProject
    \/ UpdateProject
    \/ ListProjects
    \/ CreateProject
    \/ CreatePortfolio
    \/ GetPortfolio
    \/ UpdatePortfolio
    \/ ListPortfolios
    \/ CreateUser
    \/ ListUsers
    \/ GetUser
    \/ UpdateUser
    \/ DeleteUser
    \/ GetTenantInfo
    \/ UpdateTenant
    \/ GetAdminDashboard
    \/ GetSystemHealth

SpecApi == ApiInit /\ [][ApiNext]_vars

(***************************************************************************)
(* Vocabulary of the properties                                            *)
(***************************************************************************)

\* The set of ids of an optional grant list; an absent list grants nothing.
GrantSet(access) ==
    IF access = Nothing THEN {} ELSE {access[1][i] : i \in DOMAIN access[1]}

\* The grant and ownership facts of the call.
InPortfolioGrants == call.resource_id \in GrantSet(call.portfolio_access)
InProjectGrants == call.resource_id \in GrantSet(call.project_access)
IsOwner == call.user_id = call.resource_owner_id
KnownType == call.resource_type \in {"portfolio", "project"}

\* Some user other than u.
OtherUser(u) == CHOOSE v \in UserIds : v # u

\* An optional grant list with absence replaced by the empty list.
AsList(access) == IF access = Nothing THEN Some(<<>>) ELSE access

(***************************************************************************)
(* Properties of the resolver                                              *)
(***************************************************************************)

\* C1: for role admin and role pmo_admin the resolver returns full for
\* every resource type, acting user, owner, grant lists and resource id,
\* absent ones included.
C1_AdminsResolveToFull ==
    (Resolved /\ call.user_role \in {"admin", "pmo_admin"}) => level = FULL

\* A PMO administrator on an unrecognized type with no ownership data.
C1_Witness ==
    /\ Resolved
    /\ call.user_role = "pmo_admin"
    /\ call.resource_type = "task"
    /\ call.resource_owner_id = NONE
    /\ call.portfolio_access = Nothing
    /\ call.project_access = Nothing
    /\ call.resource_id = NONE
    /\ level = FULL

\* C2: for role portfolio_manager, a portfolio resolves to full if the
\* resource id is in the portfolio grants or the acting user is the owner
\* and to read_only otherwise; a project resolves to read_write if the
\* resource id is in the project grants or the acting user is the owner
\* and to read_only otherwise.
C2_PortfolioManagerLevels ==
    (Resolved /\ call.user_role = "portfolio_manager") =>
        /\ call.resource_type = "portfolio" =>
              level = IF InPortfolioGrants \/ IsOwner
                      THEN FULL ELSE READ_ONLY
        /\ call.resource_type = "project" =>
              level = IF InProjectGrants \/ IsOwner
                      THEN READ_WRITE ELSE READ_ONLY

\* Grant without ownership on a portfolio.
C2_Witness ==
    /\ Resolved
    /\ call.user_role = "portfolio_manager"
    /\ call.resource_type = "portfolio"
    /\ InPortfolioGrants
    /\ ~IsOwner
    /\ level = FULL

\* C3: for role project_manager, a project resolves to full if the
\* resource id is in the project grants or the acting user is the owner
\* (also when the resource id is absent) and to read_only otherwise; a
\* portfolio always resolves to read_only.
C3_ProjectManagerLevels ==
    (Resolved /\ call.user_role = "project_manager") =>
        /\ call.resource_type = "project" =>
              level = IF InProjectGrants \/ IsOwner
                      THEN FULL ELSE READ_ONLY
        /\ call.resource_type = "portfolio" => level = READ_ONLY

\* The owner of a portfolio who also holds a grant on it stays read_only.
C3_Witness ==
    /\ Resolved
    /\ call.user_role = "project_manager"
    /\ call.resource_type = "portfolio"
    /\ InPortfolioGrants
    /\ IsOwner
    /\ level = READ_ONLY

\* C4 as stated: an unrecognized resource type resolves to no_access for
\* every role among portfolio_manager, project_manager, finance, resource
\* and viewer.
C4_UnknownTypeNoAccess ==
    (/\ Resolved
     /\ call.user_role \in {"portfolio_manager", "project_manager",
                            "finance", "resource", "viewer"}
     /\ ~KnownType)
        => level = NO_ACCESS

\* C4 amended: an unrecognized resource type resolves to no_access for the
\* roles portfolio_manager, project_manager and viewer, to read_write for
\* finance and to read_only for resource, whatever the ownership and the
\* grants are.
C4_UnknownTypeByRole ==
    (Resolved /\ ~KnownType) =>
        /\ call.user_role \in {"portfolio_manager", "project_manager",
                               "viewer"} => level = NO_ACCESS
        /\ call.user_role = "finance" => level = READ_WRITE
        /\ call.user_role = "resource" => level = READ_ONLY

\* A viewer holding the resource id in both lists, on an unknown type.
C4_Witness ==
    /\ Resolved
    /\ call.user_role = "viewer"
    /\ ~KnownType
    /\ InPortfolioGrants
    /\ InProjectGrants
    /\ IsOwner
    /\ level = NO_ACCESS

\* C5: for role finance the resolver returns read_write for every resource
\* type, owner and grant list.
C5_FinanceReadWrite ==
    (Resolved /\ call.user_role = "finance") => level = READ_WRITE

\* Finance on an unrecognized type, neither owner nor grantee.
C5_Witness ==
    /\ Resolved
    /\ call.user_role = "finance"
    /\ ~KnownType
    /\ ~IsOwner
    /\ ~InPortfolioGrants
    /\ ~InProjectGrants
    /\ level = READ_WRITE

\* C6: for role resource the resolver returns read_write exactly when the
\* type is project and the resource id is in the project grants, and
\* read_only otherwise; ownership alone and portfolio grants give read_only.
C6_ResourceLevels ==
    (Resolved /\ call.user_role = "resource") =>
        level = IF call.resource_type = "project" /\ InProjectGrants
                THEN READ_WRITE ELSE READ_ONLY

\* The owner of a project, without a project grant.
C6_Witness ==
    /\ Resolved
    /\ call.user_role = "resource"
    /\ call.resource_type = "project"
    /\ IsOwner
    /\ InPortfolioGrants
    /\ ~InProjectGrants
    /\ level = READ_ONLY

\* C7: for role viewer the resolver returns read_only exactly when the type
\* is portfolio and the id is in the portfolio grants, or the type is
\* project and the id is in the project grants, and no_access otherwise.
C7_ViewerLevels ==
    (Resolved /\ call.user_role = "viewer") =>
        level = IF \/ call.resource_type = "portfolio" /\ InPortfolioGrants
                   \/ call.resource_type = "project" /\ InProjectGrants
                THEN READ_ONLY ELSE NO_ACCESS

\* A viewer who owns a project and holds only a portfolio grant on its id.
C7_Witness ==
    /\ Resolved
    /\ call.user_role = "viewer"
    /\ call.resource_type = "project"
    /\ IsOwner
    /\ InPortfolioGrants
    /\ ~InProjectGrants
    /\ level = NO_ACCESS

\* C8: when the owner is absent and the acting user is not, the resolver
\* returns for every role the level of a user who is not the owner; a level
\* above the one of a non-owner without grants then comes with a grant.
C8_NullOwnerNeverMatches ==
    (Resolved /\ call.resource_owner_id = NONE /\ call.user_id # NONE) =>
        /\ level = get_resource_access_level(call.user_role,
                       call.resource_type, call.user_id,
                       OtherUser(call.user_id), call.portfolio_access,
                       call.project_access, call.resource_id)
        /\ level # get_resource_access_level(call.user_role,
                       call.resource_type, call.user_id,
                       OtherUser(call.user_id), Some(<<>>), Some(<<>>),
                       call.resource_id)
              => (InPortfolioGrants \/ InProjectGrants)

\* A project manager on a project without owner and without grant.
C8_Witness ==
    /\ Resolved
    /\ call.user_role = "project_manager"
    /\ call.resource_type = "project"
    /\ call.resource_owner_id = NONE
    /\ call.user_id = "u1"
    /\ ~InProjectGrants
    /\ level = READ_ONLY

\* C9: the resolver returns one of the four access levels for every role
\* (inside or outside the closed set), type, user and optional inputs; an
\* absent grant list behaves as the empty list, and with an absent resource
\* id the level is the one obtained with empty grant lists.
C9_ResolverTotal ==
    Resolved =>
        /\ level \in AccessLevel
        /\ level = get_resource_access_level(call.user_role,
                       call.resource_type, call.user_id,
                       call.resource_owner_id, AsList(call.portfolio_access),
                       AsList(call.project_access), call.resource_id)
        /\ call.resource_id = NONE =>
              level = get_resource_access_level(call.user_role,
                          call.resource_type, call.user_id,
                          call.resource_owner_id, Some(<<>>), Some(<<>>),
                          "p7")

\* No role, no ids and non-empty lists: the call returns no_access.
C9_Witness ==
    /\ Resolved
    /\ call.user_role = NONE
    /\ call.resource_id = NONE
    /\ call.portfolio_access = Some(<<"p7", "pf1">>)
    /\ call.project_access = Nothing
    /\ level = NO_ACCESS

(***************************************************************************)
(* Properties of the coarse permission check                               *)
(***************************************************************************)

\* C10: for every role of the closed set and every permission of the
\* catalog, user_has_permission is true exactly when the permission is in
\* the role's set of ROLE_PERMISSIONS; approve_budgets is granted to admin
\* and not to resource.
C10_PermissionIffInRoleSet ==
    (Checked /\ call.role \in UserRole /\ call.permission \in Permission) =>
        /\ granted = (call.permission \in ROLE_PERMISSIONS[call.role])
        /\ (call.role = "admin" /\ call.permission = "approve_budgets")
              => granted
        /\ (call.role = "resource" /\ call.permission = "approve_budgets")
              => ~granted

\* The resource role asking for approve_budgets is refused.
C10_Witness ==
    /\ Checked
    /\ call.role = "resource"
    /\ call.permission = "approve_budgets"
    /\ ~granted

\* C11: the coarse check fails closed: for a role outside the closed set
\* get_user_permissions returns the empty set and user_has_permission is
\* false for every permission; for a role of the set and a permission
\* outside the catalog user_has_permission is false.
C11_CoarseCheckFailsClosed ==
    /\ (returned /\ call.fn = "get_user_permissions"
            /\ call.role \notin UserRole) => perms = {}
    /\ (Checked /\ call.role \notin UserRole) => ~granted
    /\ (Checked /\ call.permission \notin Permission) => ~granted

\* A call without a role asks for a permission every role of the set holds.
C11_Witness ==
    /\ Checked
    /\ call.role = NONE
    /\ call.permission = "view_project"
    /\ ~granted

\* C12: for every role and every list of permissions,
\* user_has_any_permission is the disjunction and user_has_all_permissions
\* the conjunction of user_has_permission over the elements of the list;
\* on the empty list has-any is false and has-all is true.
C12_AnyAllOverList ==
    /\ (returned /\ call.fn = "user_has_any_permission") =>
          granted = (\E i \in DOMAIN call.permissions :
                        user_has_permission(call.role, call.permissions[i]))
    /\ (returned /\ call.fn = "user_has_all_permissions") =>
          granted = (\A i \in DOMAIN call.permissions :
                        user_has_permission(call.role, call.permissions[i]))
    /\ (returned /\ call.fn = "user_has_any_permission"
            /\ call.permissions = <<>>) => ~granted
    /\ (returned /\ call.fn = "user_has_all_permissions"
            /\ call.permissions = <<>>) => granted

\* Only the second permission of the list is held by the role.
C12_Witness ==
    /\ returned
    /\ call.fn = "user_has_any_permission"
    /\ call.role = "resource"
    /\ call.permissions = <<"approve_budgets", "enter_time">>
    /\ granted

(***************************************************************************)
(* Properties of concurrent calls                                          *)
(***************************************************************************)

\* The value a call returns when it runs alone.
RunAlone(c) ==
    CASE c.fn = "user_has_permission" -> user_has_permission(c.role, c.permission)
      [] c.fn = "get_user_permissions" -> get_user_permissions(c.role)
      [] c.fn = "user_has_any_permission" -> user_has_any_permission(c.role, c.permissions)
      [] c.fn = "user_has_all_permissions" -> user_has_all_permissions(c.role, c.permissions)
      [] c.fn = "get_resource_access_level" -> get_resource_access_level(c.user_role, c.resource_type, c.user_id, c.resource_owner_id, c.portfolio_access, c.project_access, c.resource_id)

\* C13: under every interleaving of concurrent calls the role-permission
\* map is never modified, each call returns the value it returns when run
\* alone, and calls with equal arguments agree.
C13_ConcurrentCallsSafe ==
    /\ role_map = ROLE_PERMISSIONS
    /\ \A t \in DOMAIN threads :
          threads[t].pc = "done" => threads[t].result = RunAlone(threads[t].call)
    /\ \A t1, t2 \in DOMAIN threads :
          (/\ threads[t1].pc = "done"
           /\ threads[t2].pc = "done"
           /\ threads[t1].call = threads[t2].call)
              => threads[t1].result = threads[t2].result

\* Two checks of an unknown role and of the resource role have both run.
C13_Witness ==
    /\ DOMAIN threads = Threads
    /\ \A t \in Threads : threads[t].pc = "done"
    /\ threads[1].call = [fn |-> "user_has_permission", role |-> "guest", permission |-> "view_project"]
    /\ threads[1].result = FALSE
    /\ threads[2].call = [fn |-> "user_has_permission", role |-> "resource", permission |-> "view_project"]
    /\ threads[2].result = TRUE


(***************************************************************************)
(* Properties of the handlers, checked under SpecApi                       *)
(***************************************************************************)

\* The latest request was a GET of one project or portfolio.
IsInstanceGet == response.op \in {"get_project", "get_portfolio"}

\* The latest request was a PUT of one project or portfolio.
IsInstancePut == response.op \in {"update_project", "update_portfolio"}

\* The latest request was answered before any level was resolved.
NoLevel == response.level = NONE

\* The latest request returned nothing and wrote nothing.
NothingReturnedOrWritten == response.records = {} /\ ~response.changed

\* C14: the instance handlers turn the resolved level into a hard gate.  A
\* GET of a project or portfolio returns the record exactly when the level
\* is not no_access, a PUT goes through exactly when the level is full or
\* read_write; every other level is answered 403 with nothing returned and
\* nothing written.
C14_LevelIsHardGate ==
    /\ IsInstanceGet /\ ~NoLevel =>
          /\ response.level \in {FULL, READ_WRITE, READ_ONLY} => response.status = 200 /\ Cardinality(response.records) = 1
          /\ response.level = NO_ACCESS => response.status = 403 /\ NothingReturnedOrWritten
    /\ IsInstancePut /\ ~NoLevel =>
          /\ response.level \in {FULL, READ_WRITE} => response.status = 200
          /\ response.level \in {READ_ONLY, NO_ACCESS} => response.status = 403 /\ NothingReturnedOrWritten
    /\ (IsInstanceGet \/ IsInstancePut) /\ NoLevel => response.status \notin {200, 403} /\ NothingReturnedOrWritten

\* C14 witness: a PUT by a user whose level is read_only has been rejected.
C14_Witness ==
    /\ IsInstancePut
    /\ response.level = READ_ONLY
    /\ response.status = 403

\* The grant list of the acting user's record holds the requested id.
ActorGranted(field) ==
    /\ response.token.sub \in DOMAIN db.users
    /\ \E i \in DOMAIN db.users[response.token.sub][field] : db.users[response.token.sub][field][i] = response.target

\* The requested document exists, active, in the tenant of the token.
TargetInTenant(coll) ==
    /\ response.target \in DOMAIN db[coll]
    /\ db[coll][response.target].tenant_id = response.token.tenant_id
    /\ db[coll][response.target].is_active

\* C15: the instance handlers decide with the grant lists stored on the
\* acting user's record: a viewer whose project_access holds project P of
\* the tenant is allowed to GET P, and a viewer whose portfolio_access holds
\* portfolio F is allowed to GET F.
C15_ViewerGrantsAllowGet ==
    /\ response.op = "get_project" /\ response.token.user_role = "viewer" /\ TargetInTenant("projects") /\ ActorGranted("project_access") => response.status = 200
    /\ response.op = "get_portfolio" /\ response.token.user_role = "viewer" /\ TargetInTenant("portfolios") /\ ActorGranted("portfolio_access") => response.status = 200

\* The role of the token holds the permission, by the static map.
TokenRoleHolds(permission) ==
    /\ response.token.user_role \in DOMAIN ROLE_PERMISSIONS
    /\ permission \in ROLE_PERMISSIONS[response.token.user_role]

\* C16: every instance-level operation passes the coarse check before the
\* resolver decides: GET /projects/{id} succeeds only for roles holding
\* view_project, GET /portfolios/{id} only for roles holding view_portfolio,
\* PUT /projects/{id} only for roles holding edit_project and
\* PUT /portfolios/{id} only for roles holding edit_portfolio.
C16_CoarseCheckBeforeResolver ==
    /\ response.op = "get_project" /\ response.status = 200 => TokenRoleHolds("view_project")
    /\ response.op = "get_portfolio" /\ response.status = 200 => TokenRoleHolds("view_portfolio")
    /\ response.op = "update_project" /\ response.status = 200 => TokenRoleHolds("edit_project")
    /\ response.op = "update_portfolio" /\ response.status = 200 => TokenRoleHolds("edit_portfolio")

\* An id no document has.
MissingProjectId == "p9"

MissingPortfolioId == "f9"

\* The acting user has no access at all to the documents of the type in the
\* tenant of the token: the resolver, given the owner and the user's stored
\* grants, returns no_access for each of them.
NoAccessToType(coll, resource_type, owner_field) ==
    /\ response.token.user_role \in UserRole
    /\ response.token.sub \in DOMAIN db.users
    /\ \A id \in DOMAIN db[coll] :
          db[coll][id].tenant_id = response.token.tenant_id /\ db[coll][id].is_active =>
              get_resource_access_level(response.token.user_role, resource_type, response.token.sub, db[coll][id][owner_field], Some(db.users[response.token.sub].portfolio_access), Some(db.users[response.token.sub].project_access), id) = NO_ACCESS

\* C17: a denied GET does not reveal whether the resource exists: for a user
\* with no access to the resource type, the answer to GET /projects/{id}
\* (or /portfolios/{id}) for an id that exists in the tenant is the answer
\* for an id that does not exist.
C17_DeniedGetDoesNotLeak ==
    /\ response.op = "get_project" /\ TargetInTenant("projects") /\ NoAccessToType("projects", "project", "project_manager_id") =>
          response.status = get_project(db, get_current_user_and_tenant(response.token), MissingProjectId).status
    /\ response.op = "get_portfolio" /\ TargetInTenant("portfolios") /\ NoAccessToType("portfolios", "portfolio", "portfolio_manager_id") =>
          response.status = get_portfolio(db, get_current_user_and_tenant(response.token), MissingPortfolioId).status

\* The documents of a collection that a step inserted or modified.
Touched(coll) == {id \in DOMAIN db'[coll] : id \notin DOMAIN db[coll] \/ db'[coll][id] # db[coll][id]}

\* The tenant identifiers a touched document has had: a tenant document's
\* is its id, any other document's is its tenant_id field, before and after.
TenantsOf(coll, id) ==
    IF coll = "tenants" THEN {id}
    ELSE {db'[coll][id].tenant_id} \cup (IF id \in DOMAIN db[coll] THEN {db[coll][id].tenant_id} ELSE {})

\* C18: cross-tenant access is always denied.  Whatever came before, a
\* request carrying a token of tenant T returns no user, portfolio, project
\* or tenant document of another tenant and modifies none, whatever the
\* caller's role and whatever ids it supplies.
C18_CrossTenantDenied ==
    [][response'.token # NoToken =>
          /\ \A doc \in response'.records : doc.tenant_id = response'.token.tenant_id
          /\ \A coll \in DOMAIN db : \A id \in Touched(coll) : TenantsOf(coll, id) = {response'.token.tenant_id}
          /\ \A coll \in DOMAIN db : DOMAIN db[coll] \subseteq DOMAIN db'[coll]]_vars

\* C18 witness: an administrator's PUT on a project of another tenant has
\* been answered 404.
C18_Witness ==
    /\ response.op = "update_project"
    /\ response.token.user_role = "admin"
    /\ response.target \in DOMAIN db.projects
    /\ db.projects[response.target].tenant_id # response.token.tenant_id
    /\ response.status = 404
    /\ ~response.changed

\* C19: a user's role is immutable once assigned: no request changes the
\* role stored for a user, no user record disappears, and every stored role
\* is one of the closed set.
C19_RoleImmutable ==
    [][/\ \A u \in DOMAIN db.users : u \in DOMAIN db'.users /\ db'.users[u].role = db.users[u].role
       /\ \A u \in DOMAIN db'.users : db'.users[u].role \in UserRole]_vars

\* The collection a by-id request of projects or portfolios reads.
CollectionOf(op) == IF op \in {"get_project", "update_project"} THEN "projects" ELSE "portfolios"

\* The latest request reached a permission gate or the resolver: it carried a
\* token, and if it named a project or portfolio, that document exists in
\* the token's tenant.
ReachedGate ==
    /\ response.token # NoToken
    /\ (IsInstanceGet \/ IsInstancePut) => TargetInTenant(CollectionOf(response.op))

\* C20: a role outside the closed set is denied, not crashed on.  When the
\* token carries no role (a refresh token) or an unknown one, every gated
\* handler answers with an authorization rejection, returns nothing and
\* writes nothing.
C20_UnknownRoleDenied ==
    ReachedGate /\ response.token.user_role \notin UserRole =>
        /\ response.status \in {401, 403}
        /\ NothingReturnedOrWritten

\* The requests that create, update or delete a document.
WritingOps == {"create_project", "create_portfolio", "create_user", "update_project", "update_portfolio", "update_user", "delete_user"}

\* C21: a request rejected by authorization leaves the store unchanged.
\* Whenever a creating, updating or deleting handler answers 403, the step
\* that served it inserted and modified no document of any collection.
C21_RejectedLeavesStore ==
    [][response'.op \in WritingOps /\ response'.status = 403 => db' = db]_vars

\* C21 witness: a PUT /users/{id} that sets fields has been answered 403.
C21_Witness ==
    /\ response.op = "update_user"
    /\ response.status = 403
    /\ DOMAIN response.body # {}

\* C22: the admin endpoints are gated by role.  GET /admin/dashboard
\* returns statistics if and only if the token's role is admin or
\* pmo_admin, GET /admin/system-health returns a status if and only if it
\* is admin; every other role (no role included) receives 403.
C22_AdminEndpointsGatedByRole ==
    /\ response.op = "get_admin_dashboard" =>
          /\ response.status = 200 <=> response.token.user_role \in {"admin", "pmo_admin"}
          /\ response.status \in {200, 403}
    /\ response.op = "get_system_health" =>
          /\ response.status = 200 <=> response.token.user_role = "admin"
          /\ response.status \in {200, 403}

\* C22 witness: a pmo_admin has been refused the system health.
C22_Witness ==
    /\ response.op = "get_system_health"
    /\ response.token.user_role = "pmo_admin"
    /\ response.status = 403

\* The user a token names exists in the token's tenant, is_active and with
\* status active.
TokenUserActive(token) ==
    /\ token.sub \in DOMAIN db.users
    /\ db.users[token.sub].tenant_id = token.tenant_id
    /\ db.users[token.sub].is_active
    /\ db.users[token.sub].status = "active"

LoginAsRegistered ==
    /\ response.op = "register_tenant"
    /\ response.status = 200
    /\ response'.op = "login"
    /\ response'.target = NewAdminIds[response.body.code]
    /\ response'.body = [tenant_code |-> response.body.code, password_ok |-> TRUE]

\* C24: after register_tenant_and_admin succeeds, a login with the returned
\* admin_username, temporary_password and tenant_code succeeds, with no
\* other operation in between, and yields tokens whose role is admin and
\* whose tenant is the new tenant.
C24_LoginAfterRegistration ==
    [][LoginAsRegistered =>
          /\ response'.status = 200
          /\ create_access_token(response'.target, response.body.code, "admin") \in response'.issued]_vars

\* The fields a user may change on their own record; updated_by is the
\* bookkeeping that goes with a change.
SelfServiceFields == {"full_name", "phone", "avatar_url", "updated_by"}

\* The role the token of the step's request carries lacks manage_users.
CallerLacksManageUsers ==
    /\ response'.token # NoToken
    /\ response'.token.user_role \notin DOMAIN ROLE_PERMISSIONS \/ "manage_users" \notin ROLE_PERMISSIONS[response'.token.user_role]

\* C25: self-service updates are limited.  A request of a caller whose role
\* lacks manage_users changes, whatever values it sends, at most full_name,
\* phone and avatar_url, and only on the caller's own record; no other field
\* of any user record changes and no user record appears or disappears.
C25_SelfServiceLimited ==
    [][CallerLacksManageUsers =>
          /\ DOMAIN db'.users = DOMAIN db.users
          /\ \A u \in DOMAIN db.users :
                /\ u # response'.token.sub => db'.users[u] = db.users[u]
                /\ \A f \in DOMAIN db.users[u] \ SelfServiceFields : db'.users[u][f] = db.users[u][f]]_vars

\* The failed_login_attempts of the users of a store.
Counters(d) == [u \in DOMAIN d.users |-> d.users[u].failed_login_attempts]

\* The username is the one of an is_active user of the tenant of the code.
IsActiveUserOf(username, tenant_code) ==
    /\ username \in DOMAIN db.users
    /\ db.users[username].tenant_id = tenant_code
    /\ db.users[username].is_active

\* The store or the tokens are as the latest request left them.  Every
\* store and every set of tokens the server reaches is reached by such a
\* request (or is the initial one), so a property of all the requests that
\* can be served next needs stating there only.
AtNewStore == response.changed

\* What the claim says of one login against the present store.
CountsFailedAttempt(tenant_code, username, password_ok, applies) ==
    LET answer == login(db, tenant_code, username, password_ok)
    IN  /\ applies /\ IsActiveUserOf(username, tenant_code) /\ ~password_ok =>
              /\ answer.status = 401
              /\ Counters(answer.db) = [Counters(db) EXCEPT ![username] = @ + 1]
        /\ ~IsActiveUserOf(username, tenant_code) => Counters(answer.db) = Counters(db)
        /\ answer.status = 200 => Counters(answer.db) = [Counters(db) EXCEPT ![username] = 0]

\* C26 as stated: each login with a wrong password for an existing
\* is_active user of the tenant increments that user's counter by exactly 1
\* and answers 401, a login for an unknown username changes no counter, and
\* every successful login sets the counter to 0.
C26_FailedAttemptsCounted ==
    AtNewStore => \A tenant_code \in TenantCodeArgs, username \in UsernameArgs, password_ok \in BOOLEAN :
        CountsFailedAttempt(tenant_code, username, password_ok, TRUE)

\* C26 amended: the same, the wrong-password case for the users of a tenant
\* whose status is active; the login of any other tenant's user is refused
\* at the tenant and counts nothing.
C26_FailedAttemptsCountedInActiveTenant ==
    AtNewStore => \A tenant_code \in TenantCodeArgs, username \in UsernameArgs, password_ok \in BOOLEAN :
        /\ CountsFailedAttempt(tenant_code, username, password_ok, tenant_code \in DOMAIN db.tenants /\ db.tenants[tenant_code].status = "active")
        /\ ~(tenant_code \in DOMAIN db.tenants /\ db.tenants[tenant_code].status = "active") => login(db, tenant_code, username, password_ok).db = db

\* C26 witness: a login with a wrong password has been answered 401 and
\* counted, so that the next successful login has a counter to reset.
C26_Witness ==
    /\ response.op = "login"
    /\ response.status = 401
    /\ ~response.body.password_ok
    /\ response.target \in DOMAIN db.users
    /\ db.users[response.target].failed_login_attempts = 1
    /\ login(db, response.body.tenant_code, response.target, TRUE).status = 200

\* The stores the requests carrying the token can leave from the present one.
StoresAfterRequestOf(token) ==
    LET current_user == get_current_user_and_tenant(token)
    IN  {update_project(db, current_user, id, body).db : id \in ProjectIdArgs, body \in ProjectUpdateArgs}
        \cup {update_portfolio(db, current_user, id, body).db : id \in PortfolioIdArgs, body \in PortfolioUpdateArgs}
        \cup {create_project(db, current_user, body).db : body \in ProjectCreateArgs}
        \cup {create_portfolio(db, current_user, body).db : body \in PortfolioCreateArgs}
        \cup {create_user(db, current_user, body).db : body \in UserCreateArgs}
        \cup {update_user(db, current_user, id, body).db : id \in UserIdArgs, body \in UserUpdateArgs}
        \cup {delete_user(db, current_user, id).db : id \in UserIdArgs}
        \cup {update_tenant(db, current_user, body).db : body \in TenantUpdateArgs}

\* The stores any request can leave from the present one (the reading
\* handlers leave it as it is).
StoresAfterAnyRequest ==
    {db}
    \cup UNION {StoresAfterRequestOf(token) : token \in tokens}
    \cup {login(db, credentials[1], credentials[2], password_ok).db : credentials \in UserLoginArgs, password_ok \in BOOLEAN}
    \cup {register_tenant_and_admin(db, body).db : body \in TenantCreateArgs}

\* The users delete_user has deactivated.
Deactivated(d) == {u \in DOMAIN d.users : ~d.users[u].is_active}

\* The record of u is kept, is_active false and status inactive.
KeptInactive(d, u) == u \in DOMAIN d.users /\ ~d.users[u].is_active /\ d.users[u].status = "inactive"

\* delete_user never deactivates the caller's own account.
NeverDeletesCaller == \A token \in tokens : delete_user(db, get_current_user_and_tenant(token), token.sub).db = db

\* No request reactivates or removes a deactivated user.
DeactivationPermanent == \A u \in Deactivated(db) : KeptInactive(db, u) /\ \A d \in StoresAfterAnyRequest : KeptInactive(d, u)

PassesUserGate(token, u, permission, body) ==
    /\ token.user_role \in UserRole
    /\ \/ permission \in ROLE_PERMISSIONS[token.user_role]
       \/ token.sub = u /\ {k \in DOMAIN body : body[k] # NONE} \subseteq {"full_name", "phone", "avatar_url"}

AccessRank(access_level) ==
    CASE access_level = NO_ACCESS -> 0
      [] access_level = READ_ONLY -> 1
      [] access_level = READ_WRITE -> 2
      [] access_level = FULL -> 3

\* The resolver on the arguments of the returned call, with the owner and
\* the two grant lists replaced.
ResolveWith(resource_owner_id, portfolio_access, project_access) ==
    get_resource_access_level(call.user_role, call.resource_type, call.user_id, resource_owner_id, portfolio_access, project_access, call.resource_id)

\* The grant list with resource_id added.
WithGrant(access, resource_id) == Some(Append(OrEmpty(access), resource_id))

\* C28: the resolver is monotone in the ownership and grant facts: for a
\* fixed role and resource type, adding the resource id to either grant list
\* or making the acting user the owner never lowers the returned level; and
\* the result for a project does not depend on the portfolio grants, the
\* result for a portfolio not on the project grants.
C28_ResolverMonotone ==
    Resolved =>
        /\ AccessRank(level) <= AccessRank(ResolveWith(call.resource_owner_id, WithGrant(call.portfolio_access, call.resource_id), call.project_access))
        /\ AccessRank(level) <= AccessRank(ResolveWith(call.resource_owner_id, call.portfolio_access, WithGrant(call.project_access, call.resource_id)))
        /\ AccessRank(level) <= AccessRank(ResolveWith(call.user_id, call.portfolio_access, call.project_access))
        /\ call.resource_type = "project" => \A portfolio_access \in GrantArgs : ResolveWith(call.resource_owner_id, portfolio_access, call.project_access) = level
        /\ call.resource_type = "portfolio" => \A project_access \in GrantArgs : ResolveWith(call.resource_owner_id, call.portfolio_access, project_access) = level

\* C28 witness: a portfolio manager who holds a grant of the other kind only
\* was resolved to read_only on a portfolio of another owner, and the grant
\* or the ownership would each raise the level to full.
C28_Witness ==
    /\ Resolved
    /\ call.user_role = "portfolio_manager"
    /\ call.resource_type = "portfolio"
    /\ call.resource_id # NONE
    /\ ListContains(call.resource_id, OrEmpty(call.project_access))
    /\ level = READ_ONLY
    /\ ResolveWith(call.resource_owner_id, WithGrant(call.portfolio_access, call.resource_id), call.project_access) = FULL
    /\ ResolveWith(call.user_id, call.portfolio_access, call.project_access) = FULL

\* The authorization decision in an answer: whether the request was refused,
\* and the level the resolver returned for it.
Decision(answer) == [refused |-> answer.status \in {401, 403}, level |-> answer.level]

\* The decisions the user, portfolio, project and admin handlers make on the
\* store d for every request carrying the token.
DecisionsFor(d, token) ==
    LET current_user == get_current_user_and_tenant(token)
    IN  {<<"get_project", id, EmptyBody, Decision(get_project(d, current_user, id))>> : id \in ProjectIdArgs}
        \cup {<<"update_project", id, body, Decision(update_project(d, current_user, id, body))>> : id \in ProjectIdArgs, body \in ProjectUpdateArgs}
        \cup {<<"list_projects", NONE, EmptyBody, Decision(list_projects(d, current_user))>>}
        \cup {<<"create_project", NONE, body, Decision(create_project(d, current_user, body))>> : body \in ProjectCreateArgs}
        \cup {<<"get_portfolio", id, EmptyBody, Decision(get_portfolio(d, current_user, id))>> : id \in PortfolioIdArgs}
        \cup {<<"update_portfolio", id, body, Decision(update_portfolio(d, current_user, id, body))>> : id \in PortfolioIdArgs, body \in PortfolioUpdateArgs}
        \cup {<<"list_portfolios", NONE, EmptyBody, Decision(list_portfolios(d, current_user))>>}
        \cup {<<"create_portfolio", NONE, body, Decision(create_portfolio(d, current_user, body))>> : body \in PortfolioCreateArgs}
        \cup {<<"create_user", NONE, body, Decision(create_user(d, current_user, body))>> : body \in UserCreateArgs}
        \cup {<<"list_users", NONE, EmptyBody, Decision(list_users(d, current_user))>>}
        \cup {<<"get_user", id, EmptyBody, Decision(get_user(d, current_user, id))>> : id \in UserIdArgs}
        \cup {<<"update_user", id, body, Decision(update_user(d, current_user, id, body))>> : id \in UserIdArgs, body \in UserUpdateArgs}
        \cup {<<"delete_user", id, EmptyBody, Decision(delete_user(d, current_user, id))>> : id \in UserIdArgs}
        \cup {<<"get_admin_dashboard", NONE, EmptyBody, Decision(get_admin_dashboard(d, current_user))>>}
        \cup {<<"get_system_health", NONE, EmptyBody, Decision(get_system_health(d, current_user))>>}

\* What an administrator of the user's tenant can make of the user's record:
\* the highest or the lowest role, other grant lists, or the record
\* deactivated by delete_user.
UserRecordChanges(d, user_id) ==
    LET administrator == [user_id |-> "administrator", tenant_id |-> d.users[user_id].tenant_id, user_role |-> "admin"]
    IN  {update_user(d, administrator, user_id, body).db : body \in UserUpdateArgs \cup {[role |-> "viewer"]}}
        \cup {delete_user(d, administrator, user_id).db}

MaxInFlight == 2

Requests == 1 .. MaxInFlight

\* Requests that get as far as their update_one in one run.
MaxRaceWrites == 2

\* The records the concurrent requests name: the one of tenant t1 and one
\* that does not exist.
RaceProjectIdArgs == {"p1", "p9"}
RacePortfolioIdArgs == {"f1", "f9"}

\* Bodies of the concurrent PUT /projects/{id}: none, or a new manager.
RaceProjectUpdateArgs == {EmptyBody, [project_manager_id |-> "a1"], [project_manager_id |-> "u1"]}

\* Bodies of the concurrent PUT /portfolios/{id}: none, or a new manager.
RacePortfolioUpdateArgs == {EmptyBody, [portfolio_manager_id |-> "a1"], [portfolio_manager_id |-> "u1"]}

\* No request is being served in the slot.
Idle == [pc |-> "idle", op |-> NONE, token |-> NoToken, target |-> NONE, body |-> EmptyBody, access_level |-> NONE]

RaceInit ==
    /\ CoreAtRest
    /\ role_map = ROLE_PERMISSIONS
    /\ db \in SeedDatabases
    /\ tokens = login(db, "t1", "a1", TRUE).issued \cup login(db, "t1", "u1", TRUE).issued
    /\ response = NoResponse
    /\ writes = 0
    /\ threads = [r \in Requests |-> Idle]

\* The handler answers and the slot is free again.
Respond(r, op, token, target, body, code, access_level, records) ==
    /\ response' = [op |-> op, token |-> token, target |-> target, body |-> body, status |-> code, level |-> access_level, records |-> records, issued |-> {}, changed |-> FALSE]
    /\ threads' = [threads EXCEPT ![r] = Idle]
    /\ UNCHANGED <<db, writes>>

\* The handler goes on to its update_one.
GoOnToWrite(r, op, token, target, body, access_level) ==
    /\ writes < MaxRaceWrites
    /\ writes' = writes + 1
    /\ threads' = [threads EXCEPT ![r] = [pc |-> "update_one", op |-> op, token |-> token, target |-> target, body |-> body, access_level |-> access_level]]
    /\ UNCHANGED <<db, response>>

\* update_project up to its update_one: find_one of the project, the level
\* against the manager found, 404 / 403, and the answer of an empty body.
ProjectCheck(r) ==
    /\ threads[r].pc = "idle"
    /\ \E token \in tokens, project_id \in RaceProjectIdArgs, project_data \in RaceProjectUpdateArgs :
          LET current_user == get_current_user_and_tenant(token)
          IN  IF ~FindOneActive(db.projects, project_id, current_user.tenant_id) THEN Respond(r, "update_project", token, project_id, project_data, 404, NONE, {})
              ELSE IF ~UserRoleAccepts(current_user.user_role) THEN Respond(r, "update_project", token, project_id, project_data, 500, NONE, {})
              ELSE LET access_level == get_resource_access_level(current_user.user_role, "project", current_user.user_id, db.projects[project_id].project_manager_id, Nothing, Nothing, project_id)
                   IN  IF ~MayEdit(access_level) THEN Respond(r, "update_project", token, project_id, project_data, 403, access_level, {})
                       ELSE IF DOMAIN project_data # {} THEN GoOnToWrite(r, "update_project", token, project_id, project_data, access_level)
                       ELSE Respond(r, "update_project", token, project_id, project_data, 200, access_level, {Doc(db, "projects", project_id)})
    /\ UNCHANGED <<coreVars, role_map, tokens>>

\* await projects_collection.update_one({"_id": project_id}, {"$set": ...})
ProjectWrite(r) ==
    /\ threads[r].pc = "update_one"
    /\ threads[r].op = "update_project"
    /\ db' = [db EXCEPT !.projects[threads[r].target] = SetFields(@, threads[r].body, threads[r].token.sub)]
    /\ threads' = [threads EXCEPT ![r].pc = "find_one"]
    /\ UNCHANGED <<coreVars, role_map, tokens, writes, response>>

\* updated_project = await projects_collection.find_one({"_id": project_id})
ProjectAnswer(r) ==
    /\ threads[r].pc = "find_one"
    /\ threads[r].op = "update_project"
    /\ Respond(r, "update_project", threads[r].token, threads[r].target, threads[r].body, 200, threads[r].access_level, {Doc(db, "projects", threads[r].target)})
    /\ UNCHANGED <<coreVars, role_map, tokens>>

\* update_portfolio up to its update_one.
PortfolioCheck(r) ==
    /\ threads[r].pc = "idle"
    /\ \E token \in tokens, portfolio_id \in RacePortfolioIdArgs, portfolio_data \in RacePortfolioUpdateArgs :
          LET current_user == get_current_user_and_tenant(token)
          IN  IF ~FindOneActive(db.portfolios, portfolio_id, current_user.tenant_id) THEN Respond(r, "update_portfolio", token, portfolio_id, portfolio_data, 404, NONE, {})
              ELSE IF ~UserRoleAccepts(current_user.user_role) THEN Respond(r, "update_portfolio", token, portfolio_id, portfolio_data, 500, NONE, {})
              ELSE LET access_level == get_resource_access_level(current_user.user_role, "portfolio", current_user.user_id, db.portfolios[portfolio_id].portfolio_manager_id, Nothing, Nothing, portfolio_id)
                   IN  IF ~MayEdit(access_level) THEN Respond(r, "update_portfolio", token, portfolio_id, portfolio_data, 403, access_level, {})
                       ELSE IF DOMAIN portfolio_data # {} THEN GoOnToWrite(r, "update_portfolio", token, portfolio_id, portfolio_data, access_level)
                       ELSE Respond(r, "update_portfolio", token, portfolio_id, portfolio_data, 200, access_level, {Doc(db, "portfolios", portfolio_id)})
    /\ UNCHANGED <<coreVars, role_map, tokens>>

\* await portfolios_collection.update_one({"_id": portfolio_id}, {"$set": ...})
PortfolioWrite(r) ==
    /\ threads[r].pc = "update_one"
    /\ threads[r].op = "update_portfolio"
    /\ db' = [db EXCEPT !.portfolios[threads[r].target] = SetFields(@, threads[r].body, threads[r].token.sub)]
    /\ threads' = [threads EXCEPT ![r].pc = "find_one"]
    /\ UNCHANGED <<coreVars, role_map, tokens, writes, response>>

\* updated_portfolio = await portfolios_collection.find_one({"_id": portfolio_id})
PortfolioAnswer(r) ==
    /\ threads[r].pc = "find_one"
    /\ threads[r].op = "update_portfolio"
    /\ Respond(r, "update_portfolio", threads[r].token, threads[r].target, threads[r].body, 200, threads[r].access_level, {Doc(db, "portfolios", threads[r].target)})
    /\ UNCHANGED <<coreVars, role_map, tokens>>

RaceNext ==
    \E r \in Requests :
        \/ ProjectCheck(r)
        \/ ProjectWrite(r)
        \/ ProjectAnswer(r)
        \/ PortfolioCheck(r)
        \/ PortfolioWrite(r)
        \/ PortfolioAnswer(r)

SpecRace == RaceInit /\ [][RaceNext]_vars

\* The level the user of request r resolves to against the manager the
\* store holds for the record now.
LevelAtStore(r) ==
    LET current_user == get_current_user_and_tenant(threads[r].token)
    IN  IF threads[r].op = "update_project"
        THEN get_resource_access_level(current_user.user_role, "project", current_user.user_id, db.projects[threads[r].target].project_manager_id, Nothing, Nothing, threads[r].target)
        ELSE get_resource_access_level(current_user.user_role, "portfolio", current_user.user_id, db.portfolios[threads[r].target].portfolio_manager_id, Nothing, Nothing, threads[r].target)

\* C30: under every interleaving of concurrent update_project and
\* update_portfolio requests, each write is made by a user who resolves to
\* full or read_write against the owner the store holds at the moment of the
\* write: a user whose ownership a concurrent update transferred away
\* between their check and their write does not get the write applied.
C30_WriteByAuthorizedUser ==
    [][\A r \in Requests : threads[r].pc = "update_one" /\ threads'[r].pc = "find_one" => MayEdit(LevelAtStore(r))]_vars

====
